---- MODULE Spec2Model ----
(***************************************************************************)
(* Model of InterviewSessionService: the in-memory session map, the        *)
(* durable store behind InterviewPersistenceService, and the lifecycle     *)
(* operations createSession, getCurrentQuestion, submitAnswer, saveAnswer, *)
(* completeInterview and generateReport.                                   *)
(***************************************************************************)
EXTENDS Integers, Sequences, FiniteSets, TLC

\* ------------------------------------------------------------------ bounds
MaxSessions == 2        \* session identifiers ever generated
MaxQuestions == 2       \* largest questionCount of a request
MaxCreators == 2        \* request threads of the concurrent specification
MaxCalls == 3           \* calls and restarts in one run, the store failing at will
MaxReliableCalls == 4   \* calls and restarts in one run, the store never failing

\* ------------------------------------------------------------ value spaces
NoResume == 0                       \* request.resumeId() == null
Subjects == {1}                     \* resume identifiers
Answers == {"a", "b"}               \* answer texts
NoAnswer == "null"                  \* userAnswer == null
Texts == {"t1"}                     \* resume texts
Threads == 1..MaxCreators
NoQuestion == [questionIndex |-> -1, userAnswer |-> NoAnswer]   \* a null question
Null == [ok |-> FALSE]                                          \* null / Optional.empty()
Some(v) == [ok |-> TRUE, v |-> v]

VARIABLES
    sessions,   \* the ConcurrentHashMap: session id -> InterviewSession
    store,      \* the durable store: session id -> InterviewSessionEntity
    resumes,    \* the durable store: resume id -> resume text
    nextId,     \* the next fresh session identifier
    last,       \* the last call served and its result
    calls,      \* the number of calls and restarts so far
    faults,     \* whether store reads and writes may throw in this run
    open,       \* subject -> session a createSession last returned, 0 once finished
    pc,         \* concurrent specification: position of each request thread
    loc,        \* concurrent specification: locals of each request thread
    stage,      \* Interview.tsx: the stage of the interview page
    currentQuestion     \* Interview.tsx: questionIndex of the question shown, -1 for none

vars == <<sessions, store, resumes, nextId, last, calls, faults, open, pc, loc,
          stage, currentQuestion>>

\* ------------------------------------------------------------------ status
Unfinished == {"CREATED", "IN_PROGRESS"}
Finished == {"COMPLETED", "EVALUATED"}

convertStatus(status) ==
    CASE status = "CREATED" -> "CREATED"
      [] status = "IN_PROGRESS" -> "IN_PROGRESS"
      [] status = "COMPLETED" -> "COMPLETED"
      [] status = "EVALUATED" -> "EVALUATED"

\* ------------------------------------------------------------ data records
InterviewSession(sessionId, resumeText, resumeId, questions, currentIndex, status) ==
    [sessionId |-> sessionId, resumeText |-> resumeText, resumeId |-> resumeId,
     questions |-> questions, currentIndex |-> currentIndex, status |-> status]

toDTO(session) ==
    [sessionId |-> session.sessionId, resumeText |-> session.resumeText,
     totalQuestions |-> Len(session.questions), currentIndex |-> session.currentIndex,
     questions |-> session.questions, status |-> session.status]

withAnswer(question, answer) == [question EXCEPT !.userAnswer = answer]

\* questionService.generateQuestions: count questions, none answered
generateQuestions(count) ==
    [i \in 1..count |-> [questionIndex |-> i - 1, userAnswer |-> NoAnswer]]

\* the questions column: each question serialised as a pair
writeValue(questions) ==
    [i \in 1..Len(questions) |-> <<questions[i].questionIndex, questions[i].userAnswer>>]

readValue(json) ==
    [i \in 1..Len(json) |-> [questionIndex |-> json[i][1], userAnswer |-> json[i][2]]]

put(map, key, value) == (key :> value) @@ map

\* ------------------------------------------------- InterviewPersistenceService
\* A write addressed to a session the store does not hold changes nothing.
PsSaveSession(st, sessionId, resumeId, questions) ==
    put(st, sessionId,
        [sessionId |-> sessionId, resumeId |-> resumeId,
         questionsJson |-> writeValue(questions), currentQuestionIndex |-> 0,
         status |-> "CREATED", answers |-> <<>>, hasReport |-> FALSE,
         seq |-> Cardinality(DOMAIN st) + 1])

PsFindBySessionId(st, sessionId) ==
    IF sessionId \in DOMAIN st THEN Some(st[sessionId]) ELSE Null

\* the most recent session of the subject with status CREATED or IN_PROGRESS
PsFindUnfinishedSession(st, resumeId) ==
    LET cand == {id \in DOMAIN st : st[id].resumeId = resumeId /\ st[id].status \in Unfinished}
    IN IF cand = {} THEN Null
       ELSE Some(st[CHOOSE id \in cand : \A o \in cand : st[o].seq <= st[id].seq])

PsSaveAnswer(st, sessionId, index, answer) ==
    IF sessionId \in DOMAIN st
    THEN [st EXCEPT ![sessionId].answers = put(@, index, answer)]
    ELSE st

PsUpdateCurrentQuestionIndex(st, sessionId, index) ==
    IF sessionId \in DOMAIN st
    THEN [st EXCEPT ![sessionId].currentQuestionIndex = index]
    ELSE st

PsUpdateSessionStatus(st, sessionId, status) ==
    IF sessionId \in DOMAIN st
    THEN [st EXCEPT ![sessionId].status = status]
    ELSE st

PsFindAnswersBySessionId(st, sessionId) == st[sessionId].answers

PsSaveReport(st, sessionId) ==
    IF sessionId \in DOMAIN st
    THEN [st EXCEPT ![sessionId].hasReport = TRUE, ![sessionId].status = "EVALUATED"]
    ELSE st

\* ------------------------------------------------------------- restoration
\* restoreSessionFromEntity without the test index >= 0 && index < size of
\* line 174: a row past the end adds a question
restoreSessionFromEntityUnchecked(st, res, entity, rf) ==
    IF rf = 2 THEN Null
    ELSE LET questions == readValue(entity.questionsJson)
             answers == PsFindAnswersBySessionId(st, entity.sessionId)
             size == IF Len(questions) \in DOMAIN answers THEN Len(questions) + 1
                     ELSE Len(questions)
             restored == [i \in 1..size |->
                            IF (i - 1) \in DOMAIN answers
                            THEN [questionIndex |-> i - 1, userAnswer |-> answers[i - 1]]
                            ELSE questions[i]]
         IN Some(InterviewSession(entity.sessionId, res[entity.resumeId], entity.resumeId,
                                  restored, entity.currentQuestionIndex,
                                  convertStatus(entity.status)))

\* rf = 2: parsing the questions or reading the answer rows throws
restoreSessionFromEntity(st, res, entity, rf) ==
    IF rf = 2 THEN Null
    ELSE LET questions == readValue(entity.questionsJson)
             answers == PsFindAnswersBySessionId(st, entity.sessionId)
             restored == [i \in 1..Len(questions) |->
                            IF (i - 1) \in DOMAIN answers /\ i - 1 >= 0 /\ i - 1 < Len(questions)
                            THEN withAnswer(questions[i], answers[i - 1])
                            ELSE questions[i]]
         IN Some(InterviewSession(entity.sessionId, res[entity.resumeId], entity.resumeId,
                                  restored, entity.currentQuestionIndex,
                                  convertStatus(entity.status)))

\* rf = 1: findBySessionId throws
restoreSessionFromDatabase(st, res, sessionId, rf) ==
    IF rf = 1 THEN Null
    ELSE LET entityOpt == PsFindBySessionId(st, sessionId)
         IN IF ~entityOpt.ok THEN Null
            ELSE restoreSessionFromEntity(st, res, entityOpt.v, rf)

\* getOrRestoreSession reading the store first and the map only when the
\* store does not yield the session
getOrRestoreSessionStoreFirst(map, st, res, sessionId, rf) ==
    LET session == restoreSessionFromDatabase(st, res, sessionId, rf)
    IN IF session.ok
       THEN [ok |-> TRUE, session |-> session.v, map |-> put(map, sessionId, session.v)]
       ELSE IF sessionId \in DOMAIN map
       THEN [ok |-> TRUE, session |-> map[sessionId], map |-> map]
       ELSE [ok |-> FALSE, map |-> map]

\* the session, the map after the call, or INTERVIEW_SESSION_NOT_FOUND
getOrRestoreSession(map, st, res, sessionId, rf) ==
    IF sessionId \in DOMAIN map
    THEN [ok |-> TRUE, session |-> map[sessionId], map |-> map]
    ELSE LET session == restoreSessionFromDatabase(st, res, sessionId, rf)
         IN IF ~session.ok
            THEN [ok |-> FALSE, map |-> map]
            ELSE [ok |-> TRUE, session |-> session.v, map |-> put(map, sessionId, session.v)]

\* rf = 1: findUnfinishedSession of the store throws
findUnfinishedSession(map, st, res, resumeId, rf) ==
    IF rf = 1 THEN [ok |-> FALSE, map |-> map]
    ELSE LET entityOpt == PsFindUnfinishedSession(st, resumeId)
         IN IF ~entityOpt.ok THEN [ok |-> FALSE, map |-> map]
            ELSE IF entityOpt.v.sessionId \in DOMAIN map
            THEN [ok |-> TRUE, v |-> toDTO(map[entityOpt.v.sessionId]), map |-> map]
            ELSE LET restoredSession == restoreSessionFromEntity(st, res, entityOpt.v, rf)
                 IN IF restoredSession.ok
                    THEN [ok |-> TRUE, v |-> toDTO(restoredSession.v),
                          map |-> put(map, entityOpt.v.sessionId, restoredSession.v)]
                    ELSE [ok |-> FALSE, map |-> map]

\* ----------------------------------------------------------------- results
Out(map, st, nid, err, val) ==
    [sessions |-> map, store |-> st, nextId |-> nid, err |-> err, val |-> val]

\* ------------------------------------------------------------- operations
\* Every operation yields the map and the store after the call, the next
\* fresh identifier, and the caller-visible outcome (err, val).
\* rf: which store read throws (0 none); wf: which store write of the call
\* throws (0 none), the writes after it in the same try block being skipped;
\* gf / ef: the question generator / the evaluator throws.

\* createSession putting the session into the map before it generates the questions
createSessionPuttingFirst(map, st, res, nid, req, rf, gf, wf) ==
    LET unfinishedOpt == IF req.resumeId # NoResume
                         THEN findUnfinishedSession(map, st, res, req.resumeId, rf)
                         ELSE [ok |-> FALSE, map |-> map]
    IN IF unfinishedOpt.ok
       THEN Out(unfinishedOpt.map, st, nid, "ok", unfinishedOpt.v)
       ELSE IF gf
       THEN Out(put(unfinishedOpt.map, nid,
                    InterviewSession(nid, req.resumeText, req.resumeId, <<>>, 0, "CREATED")),
                st, nid + 1, "GENERATION_FAILED", Null)
       ELSE LET sessionId == nid
                questions == generateQuestions(req.questionCount)
                session == InterviewSession(sessionId, req.resumeText, req.resumeId,
                                            questions, 0, "CREATED")
                map2 == put(unfinishedOpt.map, sessionId, session)
                st2 == IF req.resumeId # NoResume /\ wf = 0
                       THEN PsSaveSession(st, sessionId, req.resumeId, questions)
                       ELSE st
            IN Out(map2, st2, nid + 1, "ok", toDTO(session))

createSession(map, st, res, nid, req, rf, gf, wf) ==
    LET unfinishedOpt == IF req.resumeId # NoResume
                         THEN findUnfinishedSession(map, st, res, req.resumeId, rf)
                         ELSE [ok |-> FALSE, map |-> map]
    IN IF unfinishedOpt.ok
       THEN Out(unfinishedOpt.map, st, nid, "ok", unfinishedOpt.v)
       ELSE IF gf
       THEN Out(unfinishedOpt.map, st, nid, "GENERATION_FAILED", Null)
       ELSE LET sessionId == nid
                questions == generateQuestions(req.questionCount)
                session == InterviewSession(sessionId, req.resumeText, req.resumeId,
                                            questions, 0, "CREATED")
                map2 == put(unfinishedOpt.map, sessionId, session)
                st2 == IF req.resumeId # NoResume /\ wf = 0
                       THEN PsSaveSession(st, sessionId, req.resumeId, questions)
                       ELSE st
            IN Out(map2, st2, nid + 1, "ok", toDTO(session))

\* getCurrentQuestion answering with the first question, not the one at currentIndex
getCurrentQuestionFirst(map, st, res, nid, sessionId, rf, wf) ==
    LET got == getOrRestoreSession(map, st, res, sessionId, rf)
    IN IF ~got.ok
       THEN Out(got.map, st, nid, "INTERVIEW_SESSION_NOT_FOUND", Null)
       ELSE LET session == got.session
            IN IF session.currentIndex >= Len(session.questions)
               THEN Out(got.map, st, nid, "ok", NoQuestion)
               ELSE IF session.status = "CREATED"
               THEN LET started == [session EXCEPT !.status = "IN_PROGRESS"]
                        st2 == IF session.resumeId # NoResume /\ wf = 0
                               THEN PsUpdateSessionStatus(st, sessionId, "IN_PROGRESS")
                               ELSE st
                    IN Out(put(got.map, sessionId, started), st2, nid, "ok",
                           started.questions[1])
               ELSE Out(got.map, st, nid, "ok", session.questions[1])

\* getCurrentQuestion serving no question of a COMPLETED or EVALUATED session
getCurrentQuestionGuarded(map, st, res, nid, sessionId, rf, wf) ==
    LET got == getOrRestoreSession(map, st, res, sessionId, rf)
    IN IF ~got.ok
       THEN Out(got.map, st, nid, "INTERVIEW_SESSION_NOT_FOUND", Null)
       ELSE LET session == got.session
            IN IF session.currentIndex >= Len(session.questions) \/ session.status \in Finished
               THEN Out(got.map, st, nid, "ok", NoQuestion)
               ELSE IF session.status = "CREATED"
               THEN LET started == [session EXCEPT !.status = "IN_PROGRESS"]
                        st2 == IF session.resumeId # NoResume /\ wf = 0
                               THEN PsUpdateSessionStatus(st, sessionId, "IN_PROGRESS")
                               ELSE st
                    IN Out(put(got.map, sessionId, started), st2, nid, "ok",
                           started.questions[started.currentIndex + 1])
               ELSE Out(got.map, st, nid, "ok", session.questions[session.currentIndex + 1])

getCurrentQuestion(map, st, res, nid, sessionId, rf, wf) ==
    LET got == getOrRestoreSession(map, st, res, sessionId, rf)
    IN IF ~got.ok
       THEN Out(got.map, st, nid, "INTERVIEW_SESSION_NOT_FOUND", Null)
       ELSE LET session == got.session
            IN IF session.currentIndex >= Len(session.questions)
               THEN Out(got.map, st, nid, "ok", NoQuestion)
               ELSE IF session.status = "CREATED"
               THEN LET started == [session EXCEPT !.status = "IN_PROGRESS"]
                        st2 == IF session.resumeId # NoResume /\ wf = 0
                               THEN PsUpdateSessionStatus(st, sessionId, "IN_PROGRESS")
                               ELSE st
                    IN Out(put(got.map, sessionId, started), st2, nid, "ok",
                           started.questions[started.currentIndex + 1])
               ELSE Out(got.map, st, nid, "ok", session.questions[session.currentIndex + 1])

\* submitAnswer accepting questionIndex = questions.size()
submitAnswerOffByOne(map, st, res, nid, req, rf, wf) ==
    LET got == getOrRestoreSession(map, st, res, req.sessionId, rf)
    IN IF ~got.ok
       THEN Out(got.map, st, nid, "INTERVIEW_SESSION_NOT_FOUND", Null)
       ELSE LET session == got.session
                index == req.questionIndex
            IN IF index < 0 \/ index > Len(session.questions)
               THEN Out(got.map, st, nid, "INTERVIEW_QUESTION_NOT_FOUND", Null)
               ELSE LET answered == IF index < Len(session.questions)
                                    THEN [session.questions EXCEPT
                                            ![index + 1] = withAnswer(@, req.answer)]
                                    ELSE session.questions
                        currentIndex == index + 1
                        hasNextQuestion == currentIndex < Len(answered)
                        nextQuestion == IF hasNextQuestion
                                        THEN answered[currentIndex + 1]
                                        ELSE NoQuestion
                        status == IF ~hasNextQuestion THEN "COMPLETED" ELSE session.status
                        after == [session EXCEPT !.questions = answered,
                                                 !.currentIndex = currentIndex,
                                                 !.status = status]
                        st1 == IF wf = 1 THEN st
                               ELSE PsSaveAnswer(st, req.sessionId, index, req.answer)
                        st2 == IF wf \in {1, 2} THEN st1
                               ELSE PsUpdateCurrentQuestionIndex(st1, req.sessionId, currentIndex)
                        st3 == IF wf \in {1, 2, 3} THEN st2
                               ELSE PsUpdateSessionStatus(st2, req.sessionId,
                                        IF status = "COMPLETED" THEN "COMPLETED"
                                        ELSE "IN_PROGRESS")
                    IN Out(put(got.map, req.sessionId, after),
                           IF session.resumeId # NoResume THEN st3 ELSE st, nid, "ok",
                           [hasNext |-> hasNextQuestion, nextQuestion |-> nextQuestion,
                            currentIndex |-> currentIndex,
                            totalQuestions |-> Len(answered)])

\* submitAnswer leaving the status alone after the last question
submitAnswerNotCompleting(map, st, res, nid, req, rf, wf) ==
    LET got == getOrRestoreSession(map, st, res, req.sessionId, rf)
    IN IF ~got.ok
       THEN Out(got.map, st, nid, "INTERVIEW_SESSION_NOT_FOUND", Null)
       ELSE LET session == got.session
                index == req.questionIndex
            IN IF index < 0 \/ index >= Len(session.questions)
               THEN Out(got.map, st, nid, "INTERVIEW_QUESTION_NOT_FOUND", Null)
               ELSE LET answered == [session.questions EXCEPT
                                       ![index + 1] = withAnswer(@, req.answer)]
                        currentIndex == index + 1
                        hasNextQuestion == currentIndex < Len(answered)
                        nextQuestion == IF hasNextQuestion
                                        THEN answered[currentIndex + 1]
                                        ELSE NoQuestion
                        status == session.status
                        after == [session EXCEPT !.questions = answered,
                                                 !.currentIndex = currentIndex,
                                                 !.status = status]
                        st1 == IF wf = 1 THEN st
                               ELSE PsSaveAnswer(st, req.sessionId, index, req.answer)
                        st2 == IF wf \in {1, 2} THEN st1
                               ELSE PsUpdateCurrentQuestionIndex(st1, req.sessionId, currentIndex)
                        st3 == IF wf \in {1, 2, 3} THEN st2
                               ELSE PsUpdateSessionStatus(st2, req.sessionId,
                                        IF status = "COMPLETED" THEN "COMPLETED"
                                        ELSE "IN_PROGRESS")
                    IN Out(put(got.map, req.sessionId, after),
                           IF session.resumeId # NoResume THEN st3 ELSE st, nid, "ok",
                           [hasNext |-> hasNextQuestion, nextQuestion |-> nextQuestion,
                            currentIndex |-> currentIndex,
                            totalQuestions |-> Len(answered)])

\* submitAnswer without the updateCurrentQuestionIndex write
submitAnswerNoIndexWrite(map, st, res, nid, req, rf, wf) ==
    LET got == getOrRestoreSession(map, st, res, req.sessionId, rf)
    IN IF ~got.ok
       THEN Out(got.map, st, nid, "INTERVIEW_SESSION_NOT_FOUND", Null)
       ELSE LET session == got.session
                index == req.questionIndex
            IN IF index < 0 \/ index >= Len(session.questions)
               THEN Out(got.map, st, nid, "INTERVIEW_QUESTION_NOT_FOUND", Null)
               ELSE LET answered == [session.questions EXCEPT
                                       ![index + 1] = withAnswer(@, req.answer)]
                        currentIndex == index + 1
                        hasNextQuestion == currentIndex < Len(answered)
                        nextQuestion == IF hasNextQuestion
                                        THEN answered[currentIndex + 1]
                                        ELSE NoQuestion
                        status == IF ~hasNextQuestion THEN "COMPLETED" ELSE session.status
                        after == [session EXCEPT !.questions = answered,
                                                 !.currentIndex = currentIndex,
                                                 !.status = status]
                        st1 == IF wf = 1 THEN st
                               ELSE PsSaveAnswer(st, req.sessionId, index, req.answer)
                        st2 == IF wf \in {1, 2} THEN st1
                               ELSE st1
                        st3 == IF wf \in {1, 2, 3} THEN st2
                               ELSE PsUpdateSessionStatus(st2, req.sessionId,
                                        IF status = "COMPLETED" THEN "COMPLETED"
                                        ELSE "IN_PROGRESS")
                    IN Out(put(got.map, req.sessionId, after),
                           IF session.resumeId # NoResume THEN st3 ELSE st, nid, "ok",
                           [hasNext |-> hasNextQuestion, nextQuestion |-> nextQuestion,
                            currentIndex |-> currentIndex,
                            totalQuestions |-> Len(answered)])

\* submitAnswer advancing from the currentIndex it found, whatever the questionIndex
submitAnswerAdvancing(map, st, res, nid, req, rf, wf) ==
    LET got == getOrRestoreSession(map, st, res, req.sessionId, rf)
    IN IF ~got.ok
       THEN Out(got.map, st, nid, "INTERVIEW_SESSION_NOT_FOUND", Null)
       ELSE LET session == got.session
                index == req.questionIndex
            IN IF index < 0 \/ index >= Len(session.questions)
               THEN Out(got.map, st, nid, "INTERVIEW_QUESTION_NOT_FOUND", Null)
               ELSE LET answered == [session.questions EXCEPT
                                       ![index + 1] = withAnswer(@, req.answer)]
                        currentIndex == IF session.currentIndex < Len(session.questions)
                                        THEN session.currentIndex + 1
                                        ELSE session.currentIndex
                        hasNextQuestion == currentIndex < Len(answered)
                        nextQuestion == IF hasNextQuestion
                                        THEN answered[currentIndex + 1]
                                        ELSE NoQuestion
                        status == IF ~hasNextQuestion THEN "COMPLETED" ELSE session.status
                        after == [session EXCEPT !.questions = answered,
                                                 !.currentIndex = currentIndex,
                                                 !.status = status]
                        st1 == IF wf = 1 THEN st
                               ELSE PsSaveAnswer(st, req.sessionId, index, req.answer)
                        st2 == IF wf \in {1, 2} THEN st1
                               ELSE PsUpdateCurrentQuestionIndex(st1, req.sessionId, currentIndex)
                        st3 == IF wf \in {1, 2, 3} THEN st2
                               ELSE PsUpdateSessionStatus(st2, req.sessionId,
                                        IF status = "COMPLETED" THEN "COMPLETED"
                                        ELSE "IN_PROGRESS")
                    IN Out(put(got.map, req.sessionId, after),
                           IF session.resumeId # NoResume THEN st3 ELSE st, nid, "ok",
                           [hasNext |-> hasNextQuestion, nextQuestion |-> nextQuestion,
                            currentIndex |-> currentIndex,
                            totalQuestions |-> Len(answered)])

\* submitAnswer writing to the store without the test resumeId != null of line 265
submitAnswerAlwaysStoring(map, st, res, nid, req, rf, wf) ==
    LET got == getOrRestoreSession(map, st, res, req.sessionId, rf)
    IN IF ~got.ok
       THEN Out(got.map, st, nid, "INTERVIEW_SESSION_NOT_FOUND", Null)
       ELSE LET session == got.session
                index == req.questionIndex
            IN IF index < 0 \/ index >= Len(session.questions)
               THEN Out(got.map, st, nid, "INTERVIEW_QUESTION_NOT_FOUND", Null)
               ELSE LET answered == [session.questions EXCEPT
                                       ![index + 1] = withAnswer(@, req.answer)]
                        currentIndex == index + 1
                        hasNextQuestion == currentIndex < Len(answered)
                        nextQuestion == IF hasNextQuestion
                                        THEN answered[currentIndex + 1]
                                        ELSE NoQuestion
                        status == IF ~hasNextQuestion THEN "COMPLETED" ELSE session.status
                        after == [session EXCEPT !.questions = answered,
                                                 !.currentIndex = currentIndex,
                                                 !.status = status]
                        st1 == IF wf = 1 THEN st
                               ELSE PsSaveAnswer(st, req.sessionId, index, req.answer)
                        st2 == IF wf \in {1, 2} THEN st1
                               ELSE PsUpdateCurrentQuestionIndex(st1, req.sessionId, currentIndex)
                        st3 == IF wf \in {1, 2, 3} THEN st2
                               ELSE PsUpdateSessionStatus(st2, req.sessionId,
                                        IF status = "COMPLETED" THEN "COMPLETED"
                                        ELSE "IN_PROGRESS")
                    IN Out(put(got.map, req.sessionId, after),
                           st3, nid, "ok",
                           [hasNext |-> hasNextQuestion, nextQuestion |-> nextQuestion,
                            currentIndex |-> currentIndex,
                            totalQuestions |-> Len(answered)])

\* submitAnswer writing the currentIndex to the store before the answer row
submitAnswerIndexFirst(map, st, res, nid, req, rf, wf) ==
    LET got == getOrRestoreSession(map, st, res, req.sessionId, rf)
    IN IF ~got.ok
       THEN Out(got.map, st, nid, "INTERVIEW_SESSION_NOT_FOUND", Null)
       ELSE LET session == got.session
                index == req.questionIndex
            IN IF index < 0 \/ index >= Len(session.questions)
               THEN Out(got.map, st, nid, "INTERVIEW_QUESTION_NOT_FOUND", Null)
               ELSE LET answered == [session.questions EXCEPT
                                       ![index + 1] = withAnswer(@, req.answer)]
                        currentIndex == index + 1
                        hasNextQuestion == currentIndex < Len(answered)
                        nextQuestion == IF hasNextQuestion
                                        THEN answered[currentIndex + 1]
                                        ELSE NoQuestion
                        status == IF ~hasNextQuestion THEN "COMPLETED" ELSE session.status
                        after == [session EXCEPT !.questions = answered,
                                                 !.currentIndex = currentIndex,
                                                 !.status = status]
                        st1 == IF wf = 1 THEN st
                               ELSE PsUpdateCurrentQuestionIndex(st, req.sessionId, currentIndex)
                        st2 == IF wf \in {1, 2} THEN st1
                               ELSE PsSaveAnswer(st1, req.sessionId, index, req.answer)
                        st3 == IF wf \in {1, 2, 3} THEN st2
                               ELSE PsUpdateSessionStatus(st2, req.sessionId,
                                        IF status = "COMPLETED" THEN "COMPLETED"
                                        ELSE "IN_PROGRESS")
                    IN Out(put(got.map, req.sessionId, after),
                           IF session.resumeId # NoResume THEN st3 ELSE st, nid, "ok",
                           [hasNext |-> hasNextQuestion, nextQuestion |-> nextQuestion,
                            currentIndex |-> currentIndex,
                            totalQuestions |-> Len(answered)])

submitAnswer(map, st, res, nid, req, rf, wf) ==
    LET got == getOrRestoreSession(map, st, res, req.sessionId, rf)
    IN IF ~got.ok
       THEN Out(got.map, st, nid, "INTERVIEW_SESSION_NOT_FOUND", Null)
       ELSE LET session == got.session
                index == req.questionIndex
            IN IF index < 0 \/ index >= Len(session.questions)
               THEN Out(got.map, st, nid, "INTERVIEW_QUESTION_NOT_FOUND", Null)
               ELSE LET answered == [session.questions EXCEPT
                                       ![index + 1] = withAnswer(@, req.answer)]
                        currentIndex == index + 1
                        hasNextQuestion == currentIndex < Len(answered)
                        nextQuestion == IF hasNextQuestion
                                        THEN answered[currentIndex + 1]
                                        ELSE NoQuestion
                        status == IF ~hasNextQuestion THEN "COMPLETED" ELSE session.status
                        after == [session EXCEPT !.questions = answered,
                                                 !.currentIndex = currentIndex,
                                                 !.status = status]
                        st1 == IF wf = 1 THEN st
                               ELSE PsSaveAnswer(st, req.sessionId, index, req.answer)
                        st2 == IF wf \in {1, 2} THEN st1
                               ELSE PsUpdateCurrentQuestionIndex(st1, req.sessionId, currentIndex)
                        st3 == IF wf \in {1, 2, 3} THEN st2
                               ELSE PsUpdateSessionStatus(st2, req.sessionId,
                                        IF status = "COMPLETED" THEN "COMPLETED"
                                        ELSE "IN_PROGRESS")
                    IN Out(put(got.map, req.sessionId, after),
                           IF session.resumeId # NoResume THEN st3 ELSE st, nid, "ok",
                           [hasNext |-> hasNextQuestion, nextQuestion |-> nextQuestion,
                            currentIndex |-> currentIndex,
                            totalQuestions |-> Len(answered)])

\* saveAnswer moving the progress pointer to the index it saves
saveAnswerMoving(map, st, res, nid, req, rf, wf) ==
    LET got == getOrRestoreSession(map, st, res, req.sessionId, rf)
    IN IF ~got.ok
       THEN Out(got.map, st, nid, "INTERVIEW_SESSION_NOT_FOUND", Null)
       ELSE LET session == got.session
                index == req.questionIndex
            IN IF index < 0 \/ index >= Len(session.questions)
               THEN Out(got.map, st, nid, "INTERVIEW_QUESTION_NOT_FOUND", Null)
               ELSE LET answered == [session.questions EXCEPT
                                       ![index + 1] = withAnswer(@, req.answer)]
                        status == IF session.status = "CREATED" THEN "IN_PROGRESS"
                                  ELSE session.status
                        after == [session EXCEPT !.questions = answered, !.status = status,
                                                 !.currentIndex = index]
                        st1 == IF wf = 1 THEN st
                               ELSE PsSaveAnswer(st, req.sessionId, index, req.answer)
                        st2 == IF wf \in {1, 2} THEN st1
                               ELSE PsUpdateSessionStatus(st1, req.sessionId, "IN_PROGRESS")
                    IN Out(put(got.map, req.sessionId, after),
                           IF session.resumeId # NoResume THEN st2 ELSE st, nid, "ok", Null)

\* saveAnswer recording the answer at the progress pointer, not at questionIndex
saveAnswerAtCurrent(map, st, res, nid, req, rf, wf) ==
    LET got == getOrRestoreSession(map, st, res, req.sessionId, rf)
    IN IF ~got.ok
       THEN Out(got.map, st, nid, "INTERVIEW_SESSION_NOT_FOUND", Null)
       ELSE LET session == got.session
                index == req.questionIndex
            IN IF index < 0 \/ index >= Len(session.questions)
               THEN Out(got.map, st, nid, "INTERVIEW_QUESTION_NOT_FOUND", Null)
               ELSE LET at == IF session.currentIndex < Len(session.questions)
                              THEN session.currentIndex ELSE index
                        answered == [session.questions EXCEPT
                                       ![at + 1] = withAnswer(@, req.answer)]
                        status == IF session.status = "CREATED" THEN "IN_PROGRESS"
                                  ELSE session.status
                        after == [session EXCEPT !.questions = answered, !.status = status]
                        st1 == IF wf = 1 THEN st
                               ELSE PsSaveAnswer(st, req.sessionId, at, req.answer)
                        st2 == IF wf \in {1, 2} THEN st1
                               ELSE PsUpdateSessionStatus(st1, req.sessionId, "IN_PROGRESS")
                    IN Out(put(got.map, req.sessionId, after),
                           IF session.resumeId # NoResume THEN st2 ELSE st, nid, "ok", Null)

\* saveAnswer marking the session started before it validates the index
saveAnswerLateCheck(map, st, res, nid, req, rf, wf) ==
    LET got == getOrRestoreSession(map, st, res, req.sessionId, rf)
    IN IF ~got.ok
       THEN Out(got.map, st, nid, "INTERVIEW_SESSION_NOT_FOUND", Null)
       ELSE LET session == got.session
                index == req.questionIndex
            IN IF index < 0 \/ index >= Len(session.questions)
               THEN Out(put(got.map, req.sessionId,
                            [session EXCEPT !.status = IF @ = "CREATED" THEN "IN_PROGRESS"
                                                        ELSE @]),
                        st, nid, "INTERVIEW_QUESTION_NOT_FOUND", Null)
               ELSE LET answered == [session.questions EXCEPT
                                       ![index + 1] = withAnswer(@, req.answer)]
                        status == IF session.status = "CREATED" THEN "IN_PROGRESS"
                                  ELSE session.status
                        after == [session EXCEPT !.questions = answered, !.status = status]
                        st1 == IF wf = 1 THEN st
                               ELSE PsSaveAnswer(st, req.sessionId, index, req.answer)
                        st2 == IF wf \in {1, 2} THEN st1
                               ELSE PsUpdateSessionStatus(st1, req.sessionId, "IN_PROGRESS")
                    IN Out(put(got.map, req.sessionId, after),
                           IF session.resumeId # NoResume THEN st2 ELSE st, nid, "ok", Null)

\* saveAnswer, but the map takes the IN_PROGRESS that lines 324-325 write to
\* the store, whatever the status was
saveAnswerReopening(map, st, res, nid, req, rf, wf) ==
    LET got == getOrRestoreSession(map, st, res, req.sessionId, rf)
    IN IF ~got.ok
       THEN Out(got.map, st, nid, "INTERVIEW_SESSION_NOT_FOUND", Null)
       ELSE LET session == got.session
                index == req.questionIndex
            IN IF index < 0 \/ index >= Len(session.questions)
               THEN Out(got.map, st, nid, "INTERVIEW_QUESTION_NOT_FOUND", Null)
               ELSE LET answered == [session.questions EXCEPT
                                       ![index + 1] = withAnswer(@, req.answer)]
                        status == "IN_PROGRESS"
                        after == [session EXCEPT !.questions = answered, !.status = status]
                        st1 == IF wf = 1 THEN st
                               ELSE PsSaveAnswer(st, req.sessionId, index, req.answer)
                        st2 == IF wf \in {1, 2} THEN st1
                               ELSE PsUpdateSessionStatus(st1, req.sessionId, "IN_PROGRESS")
                    IN Out(put(got.map, req.sessionId, after),
                           IF session.resumeId # NoResume THEN st2 ELSE st, nid, "ok", Null)

saveAnswer(map, st, res, nid, req, rf, wf) ==
    LET got == getOrRestoreSession(map, st, res, req.sessionId, rf)
    IN IF ~got.ok
       THEN Out(got.map, st, nid, "INTERVIEW_SESSION_NOT_FOUND", Null)
       ELSE LET session == got.session
                index == req.questionIndex
            IN IF index < 0 \/ index >= Len(session.questions)
               THEN Out(got.map, st, nid, "INTERVIEW_QUESTION_NOT_FOUND", Null)
               ELSE LET answered == [session.questions EXCEPT
                                       ![index + 1] = withAnswer(@, req.answer)]
                        status == IF session.status = "CREATED" THEN "IN_PROGRESS"
                                  ELSE session.status
                        after == [session EXCEPT !.questions = answered, !.status = status]
                        st1 == IF wf = 1 THEN st
                               ELSE PsSaveAnswer(st, req.sessionId, index, req.answer)
                        st2 == IF wf \in {1, 2} THEN st1
                               ELSE PsUpdateSessionStatus(st1, req.sessionId, "IN_PROGRESS")
                    IN Out(put(got.map, req.sessionId, after),
                           IF session.resumeId # NoResume THEN st2 ELSE st, nid, "ok", Null)

\* completeInterview without the try/catch around the store write
completeInterviewUncaught(map, st, res, nid, sessionId, rf, wf) ==
    LET got == getOrRestoreSession(map, st, res, sessionId, rf)
    IN IF ~got.ok
       THEN Out(got.map, st, nid, "INTERVIEW_SESSION_NOT_FOUND", Null)
       ELSE LET session == got.session
            IN IF session.status = "COMPLETED" \/ session.status = "EVALUATED"
               THEN Out(got.map, st, nid, "INTERVIEW_ALREADY_COMPLETED", Null)
               ELSE LET after == [session EXCEPT !.status = "COMPLETED"]
                    IN IF session.resumeId # NoResume /\ wf # 0
                       THEN Out(put(got.map, sessionId, after), st, nid,
                                "INTERNAL_ERROR", Null)
                       ELSE Out(put(got.map, sessionId, after),
                                IF session.resumeId # NoResume
                                THEN PsUpdateSessionStatus(st, sessionId, "COMPLETED")
                                ELSE st, nid, "ok", Null)

\* completeInterview moving the progress pointer past the last question
completeInterviewExhausting(map, st, res, nid, sessionId, rf, wf) ==
    LET got == getOrRestoreSession(map, st, res, sessionId, rf)
    IN IF ~got.ok
       THEN Out(got.map, st, nid, "INTERVIEW_SESSION_NOT_FOUND", Null)
       ELSE LET session == got.session
            IN IF session.status = "COMPLETED" \/ session.status = "EVALUATED"
               THEN Out(got.map, st, nid, "INTERVIEW_ALREADY_COMPLETED", Null)
               ELSE LET after == [session EXCEPT !.status = "COMPLETED",
                                                 !.currentIndex = Len(session.questions)]
                        st2 == IF session.resumeId # NoResume /\ wf = 0
                               THEN PsUpdateSessionStatus(st, sessionId, "COMPLETED")
                               ELSE st
                    IN Out(put(got.map, sessionId, after), st2, nid, "ok", Null)

completeInterview(map, st, res, nid, sessionId, rf, wf) ==
    LET got == getOrRestoreSession(map, st, res, sessionId, rf)
    IN IF ~got.ok
       THEN Out(got.map, st, nid, "INTERVIEW_SESSION_NOT_FOUND", Null)
       ELSE LET session == got.session
            IN IF session.status = "COMPLETED" \/ session.status = "EVALUATED"
               THEN Out(got.map, st, nid, "INTERVIEW_ALREADY_COMPLETED", Null)
               ELSE LET after == [session EXCEPT !.status = "COMPLETED"]
                        st2 == IF session.resumeId # NoResume /\ wf = 0
                               THEN PsUpdateSessionStatus(st, sessionId, "COMPLETED")
                               ELSE st
                    IN Out(put(got.map, sessionId, after), st2, nid, "ok", Null)

\* generateReport calling the evaluator before it checks the status
generateReportEvaluatingFirst(map, st, res, nid, sessionId, rf, ef, wf) ==
    LET got == getOrRestoreSession(map, st, res, sessionId, rf)
    IN IF ~got.ok
       THEN Out(got.map, st, nid, "INTERVIEW_SESSION_NOT_FOUND", Null)
       ELSE LET session == got.session
            IN IF ef
               THEN Out(got.map, st, nid, "EVALUATION_FAILED", Null)
               ELSE IF session.status # "COMPLETED" /\ session.status # "EVALUATED"
               THEN Out(got.map, st, nid, "INTERVIEW_NOT_COMPLETED", Null)
               ELSE LET report == [sessionId |-> sessionId, resumeText |-> session.resumeText,
                                   questions |-> session.questions]
                        after == [session EXCEPT !.status = "EVALUATED"]
                        st2 == IF session.resumeId # NoResume /\ wf = 0
                               THEN PsSaveReport(st, sessionId)
                               ELSE st
                    IN Out(put(got.map, sessionId, after), st2, nid, "ok", report)

\* generateReport refusing a session that already has a report
generateReportOnce(map, st, res, nid, sessionId, rf, ef, wf) ==
    LET got == getOrRestoreSession(map, st, res, sessionId, rf)
    IN IF ~got.ok
       THEN Out(got.map, st, nid, "INTERVIEW_SESSION_NOT_FOUND", Null)
       ELSE LET session == got.session
            IN IF session.status # "COMPLETED"
               THEN Out(got.map, st, nid, "INTERVIEW_NOT_COMPLETED", Null)
               ELSE IF ef
               THEN Out(got.map, st, nid, "EVALUATION_FAILED", Null)
               ELSE LET report == [sessionId |-> sessionId, resumeText |-> session.resumeText,
                                   questions |-> session.questions]
                        after == [session EXCEPT !.status = "EVALUATED"]
                        st2 == IF session.resumeId # NoResume /\ wf = 0
                               THEN PsSaveReport(st, sessionId)
                               ELSE st
                    IN Out(put(got.map, sessionId, after), st2, nid, "ok", report)

\* generateReport without the test of the status
generateReportUnguarded(map, st, res, nid, sessionId, rf, ef, wf) ==
    LET got == getOrRestoreSession(map, st, res, sessionId, rf)
    IN IF ~got.ok
       THEN Out(got.map, st, nid, "INTERVIEW_SESSION_NOT_FOUND", Null)
       ELSE LET session == got.session
            IN IF FALSE
               THEN Out(got.map, st, nid, "INTERVIEW_NOT_COMPLETED", Null)
               ELSE IF ef
               THEN Out(got.map, st, nid, "EVALUATION_FAILED", Null)
               ELSE LET report == [sessionId |-> sessionId, resumeText |-> session.resumeText,
                                   questions |-> session.questions]
                        after == [session EXCEPT !.status = "EVALUATED"]
                        st2 == IF session.resumeId # NoResume /\ wf = 0
                               THEN PsSaveReport(st, sessionId)
                               ELSE st
                    IN Out(put(got.map, sessionId, after), st2, nid, "ok", report)

\* generateReport assigning EVALUATED before it calls the evaluator
generateReportMarkingFirst(map, st, res, nid, sessionId, rf, ef, wf) ==
    LET got == getOrRestoreSession(map, st, res, sessionId, rf)
    IN IF ~got.ok
       THEN Out(got.map, st, nid, "INTERVIEW_SESSION_NOT_FOUND", Null)
       ELSE LET session == got.session
            IN IF session.status # "COMPLETED" /\ session.status # "EVALUATED"
               THEN Out(got.map, st, nid, "INTERVIEW_NOT_COMPLETED", Null)
               ELSE IF ef
               THEN Out(put(got.map, sessionId, [session EXCEPT !.status = "EVALUATED"]),
                        st, nid, "EVALUATION_FAILED", Null)
               ELSE LET report == [sessionId |-> sessionId, resumeText |-> session.resumeText,
                                   questions |-> session.questions]
                        after == [session EXCEPT !.status = "EVALUATED"]
                        st2 == IF session.resumeId # NoResume /\ wf = 0
                               THEN PsSaveReport(st, sessionId)
                               ELSE st
                    IN Out(put(got.map, sessionId, after), st2, nid, "ok", report)

\* generateReport accepting a session that is IN_PROGRESS
generateReportAnyStarted(map, st, res, nid, sessionId, rf, ef, wf) ==
    LET got == getOrRestoreSession(map, st, res, sessionId, rf)
    IN IF ~got.ok
       THEN Out(got.map, st, nid, "INTERVIEW_SESSION_NOT_FOUND", Null)
       ELSE LET session == got.session
            IN IF session.status = "CREATED"
               THEN Out(got.map, st, nid, "INTERVIEW_NOT_COMPLETED", Null)
               ELSE IF ef
               THEN Out(got.map, st, nid, "EVALUATION_FAILED", Null)
               ELSE LET report == [sessionId |-> sessionId, resumeText |-> session.resumeText,
                                   questions |-> session.questions]
                        after == [session EXCEPT !.status = "EVALUATED"]
                        st2 == IF session.resumeId # NoResume /\ wf = 0
                               THEN PsSaveReport(st, sessionId)
                               ELSE st
                    IN Out(put(got.map, sessionId, after), st2, nid, "ok", report)

generateReport(map, st, res, nid, sessionId, rf, ef, wf) ==
    LET got == getOrRestoreSession(map, st, res, sessionId, rf)
    IN IF ~got.ok
       THEN Out(got.map, st, nid, "INTERVIEW_SESSION_NOT_FOUND", Null)
       ELSE LET session == got.session
            IN IF session.status # "COMPLETED" /\ session.status # "EVALUATED"
               THEN Out(got.map, st, nid, "INTERVIEW_NOT_COMPLETED", Null)
               ELSE IF ef
               THEN Out(got.map, st, nid, "EVALUATION_FAILED", Null)
               ELSE LET report == [sessionId |-> sessionId, resumeText |-> session.resumeText,
                                   questions |-> session.questions]
                        after == [session EXCEPT !.status = "EVALUATED"]
                        st2 == IF session.resumeId # NoResume /\ wf = 0
                               THEN PsSaveReport(st, sessionId)
                               ELSE st
                    IN Out(put(got.map, sessionId, after), st2, nid, "ok", report)

\* ------------------------------------------------------------------- calls
Call(op, sessionId, resumeId, resumeText, questionCount, questionIndex, answer, rf, gf, ef, wf) ==
    [op |-> op, sessionId |-> sessionId, resumeId |-> resumeId, resumeText |-> resumeText,
     questionCount |-> questionCount, questionIndex |-> questionIndex, answer |-> answer,
     rf |-> rf, gf |-> gf, ef |-> ef, wf |-> wf]

\* the number of store writes an operation attempts
Writes(op) ==
    CASE op = "submitAnswer" -> 3
      [] op = "saveAnswer" -> 2
      [] op \in {"createSession", "getCurrentQuestion", "completeInterview", "generateReport"} -> 1
      [] OTHER -> 0

Apply(call, map, st, res, nid) ==
    CASE call.op = "createSession" ->
            createSession(map, st, res, nid, call, call.rf, call.gf, call.wf)
      [] call.op = "getCurrentQuestion" ->
            getCurrentQuestion(map, st, res, nid, call.sessionId, call.rf, call.wf)
      [] call.op = "submitAnswer" ->
            submitAnswer(map, st, res, nid, call, call.rf, call.wf)
      [] call.op = "saveAnswer" ->
            saveAnswer(map, st, res, nid, call, call.rf, call.wf)
      [] call.op = "completeInterview" ->
            completeInterview(map, st, res, nid, call.sessionId, call.rf, call.wf)
      [] call.op = "generateReport" ->
            generateReport(map, st, res, nid, call.sessionId, call.rf, call.ef, call.wf)

\* the outcome of a call in the current state
Outcome(call) == Apply(call, sessions, store, resumes, nextId)

\* the subject's session that createSession last returned and that is unfinished
OpenAfter(call, o) ==
    [r \in Subjects |->
        IF call.op = "createSession" /\ call.resumeId = r /\ o.err = "ok"
        THEN IF o.val.status \in Unfinished THEN o.val.sessionId ELSE 0
        ELSE IF open[r] \in DOMAIN o.sessions /\ o.sessions[open[r]].status \in Finished
        THEN 0
        ELSE open[r]]

\* the addressed session as the map held it before the call
Before(sessionId) ==
    IF sessionId \in DOMAIN sessions
    THEN [cached |-> TRUE, currentIndex |-> sessions[sessionId].currentIndex,
          status |-> sessions[sessionId].status]
    ELSE [cached |-> FALSE, currentIndex |-> -1, status |-> "none"]

\* the calls and restarts of one run
Budget == IF faults THEN MaxCalls ELSE MaxReliableCalls

\* one call of the single-threaded caller, served to completion; last keeps
\* the questionIndex of a call that resolved its session and the answer of a
\* call that succeeded
Respond(call) ==
    /\ \E o \in {Outcome(call)} :
         /\ o.nextId <= MaxSessions + 1
         /\ sessions' = o.sessions
         /\ store' = o.store
         /\ nextId' = o.nextId
         /\ last' = [op |-> call.op, sessionId |-> call.sessionId,
                     questionIndex |-> IF o.err = "INTERVIEW_SESSION_NOT_FOUND" THEN 0
                                       ELSE call.questionIndex,
                     answer |-> IF o.err = "ok" THEN call.answer ELSE NoAnswer,
                     err |-> o.err, val |-> o.val, before |-> Before(call.sessionId)]
         /\ open' = OpenAfter(call, o)
    /\ calls' = calls + 1
    /\ UNCHANGED <<resumes, faults, pc, loc>>

\* a call from a caller other than the interview page
Serve(call) == Respond(call) /\ UNCHANGED <<stage, currentQuestion>>

\* a call of a run that still has calls left
Do(call) == calls < Budget /\ Serve(call)

\* The failures enumerated are those that can change what the call does: a
\* store read is attempted only on a miss of the map, and a failed read or
\* write of a session the store does not hold is the same as a successful one.
ReadFails(sessionId) ==
    IF faults /\ sessionId \notin DOMAIN sessions /\ sessionId \in DOMAIN store
    THEN 0..2 ELSE {0}
WriteFails(op, sessionId) ==
    IF faults /\ sessionId \in DOMAIN store THEN 0..Writes(op) ELSE {0}
FindFails(resumeId) ==
    IF faults /\ resumeId # NoResume /\ PsFindUnfinishedSession(store, resumeId).ok
    THEN 0..2 ELSE {0}
SaveFails(resumeId) ==
    IF faults /\ resumeId # NoResume THEN 0..1 ELSE {0}

\* the identifiers generated so far and one that was never generated: every
\* identifier never generated is answered alike
SessionIds == 1..(IF nextId <= MaxSessions THEN nextId ELSE MaxSessions)
Indexes == -1..MaxQuestions

CreateSession ==
    \E resumeId \in Subjects \cup {NoResume}, resumeText \in Texts,
       questionCount \in 1..MaxQuestions, gf \in BOOLEAN :
      \E rf \in FindFails(resumeId), wf \in SaveFails(resumeId) :
        Do(Call("createSession", 0, resumeId, resumeText, questionCount, 0, NoAnswer,
                rf, gf, FALSE, wf))

GetCurrentQuestion ==
    \E sessionId \in SessionIds :
      \E rf \in ReadFails(sessionId), wf \in WriteFails("getCurrentQuestion", sessionId) :
        Do(Call("getCurrentQuestion", sessionId, NoResume, "t1", 0, 0, NoAnswer,
                rf, FALSE, FALSE, wf))

SubmitAnswer ==
    \E sessionId \in SessionIds, questionIndex \in Indexes, answer \in Answers :
      \E rf \in ReadFails(sessionId), wf \in WriteFails("submitAnswer", sessionId) :
        Do(Call("submitAnswer", sessionId, NoResume, "t1", 0, questionIndex, answer,
                rf, FALSE, FALSE, wf))

SaveAnswer ==
    \E sessionId \in SessionIds, questionIndex \in Indexes, answer \in Answers :
      \E rf \in ReadFails(sessionId), wf \in WriteFails("saveAnswer", sessionId) :
        Do(Call("saveAnswer", sessionId, NoResume, "t1", 0, questionIndex, answer,
                rf, FALSE, FALSE, wf))

CompleteInterview ==
    \E sessionId \in SessionIds :
      \E rf \in ReadFails(sessionId), wf \in WriteFails("completeInterview", sessionId) :
        Do(Call("completeInterview", sessionId, NoResume, "t1", 0, 0, NoAnswer,
                rf, FALSE, FALSE, wf))

GenerateReport ==
    \E sessionId \in SessionIds, ef \in BOOLEAN :
      \E rf \in ReadFails(sessionId), wf \in WriteFails("generateReport", sessionId) :
        Do(Call("generateReport", sessionId, NoResume, "t1", 0, 0, NoAnswer,
                rf, FALSE, ef, wf))

\* the process restarts: the map is lost, the store is kept
Restart ==
    /\ calls < Budget
    /\ sessions # <<>>
    /\ sessions' = <<>>
    /\ calls' = calls + 1
    /\ last' = [op |-> "restart", sessionId |-> 0, questionIndex |-> 0, answer |-> NoAnswer,
                err |-> "ok", val |-> Null, before |-> Before(0)]
    /\ open' = [r \in Subjects |-> 0]
    /\ UNCHANGED <<store, resumes, nextId, faults, pc, loc, stage,
                 currentQuestion>>

NoLocals == [resumeId |-> NoResume, resumeText |-> "t1", questionCount |-> 0, sessionId |-> 0]

Start ==
    /\ sessions = <<>>
    /\ store = <<>>
    /\ resumes = [r \in Subjects |-> "t1"]
    /\ nextId = 1
    /\ last = [op |-> "none", sessionId |-> 0, questionIndex |-> 0, answer |-> NoAnswer,
               err |-> "ok", val |-> Null,
               before |-> [cached |-> FALSE, currentIndex |-> -1, status |-> "none"]]
    /\ calls = 0
    /\ open = [r \in Subjects |-> 0]
    /\ pc = [t \in Threads |-> "idle"]
    /\ loc = [t \in Threads |-> NoLocals]
    /\ stage = "config"
    /\ currentQuestion = -1

Next ==
    \/ CreateSession
    \/ GetCurrentQuestion
    \/ SubmitAnswer
    \/ SaveAnswer
    \/ CompleteInterview
    \/ GenerateReport
    \/ Restart

\* single-threaded caller, store reads and writes failing at will
Init == Start /\ faults = TRUE
Spec == Init /\ [][Next]_vars

\* single-threaded caller, the store never failing
InitReliable == Start /\ faults = FALSE
SpecReliable == InitReliable /\ [][Next]_vars

\* ------------------- request threads inside createSession, one step at a time
\* a request arrives: createSession(resumeId, resumeText, questionCount)
CsCall(t) ==
    /\ pc[t] = "idle"
    /\ \E resumeId \in Subjects, resumeText \in Texts, questionCount \in 1..MaxQuestions :
         loc' = [loc EXCEPT ![t] = [resumeId |-> resumeId, resumeText |-> resumeText,
                                    questionCount |-> questionCount, sessionId |-> 0]]
    /\ pc' = [pc EXCEPT ![t] = "find"]
    /\ UNCHANGED <<sessions, store, resumes, nextId, last, calls, faults, open, stage,
                 currentQuestion>>

\* findUnfinishedSession: return the unfinished session, or go on to create
CsFind(t) ==
    /\ pc[t] = "find"
    /\ \E unfinishedOpt \in {findUnfinishedSession(sessions, store, resumes,
                                                   loc[t].resumeId, 0)} :
         /\ sessions' = unfinishedOpt.map
         /\ IF unfinishedOpt.ok
            THEN /\ loc' = [loc EXCEPT ![t].sessionId = unfinishedOpt.v.sessionId]
                 /\ pc' = [pc EXCEPT ![t] = "returned"]
            ELSE /\ loc' = loc
                 /\ pc' = [pc EXCEPT ![t] = "generate"]
    /\ UNCHANGED <<store, resumes, nextId, last, calls, faults, open, stage,
                 currentQuestion>>

\* a fresh identifier, the questions, the new session put into the map
CsPut(t) ==
    /\ pc[t] = "generate"
    /\ sessions' = put(sessions, nextId,
                       InterviewSession(nextId, loc[t].resumeText, loc[t].resumeId,
                                        generateQuestions(loc[t].questionCount),
                                        0, "CREATED"))
    /\ nextId' = nextId + 1
    /\ loc' = [loc EXCEPT ![t].sessionId = nextId]
    /\ pc' = [pc EXCEPT ![t] = "save"]
    /\ UNCHANGED <<store, resumes, last, calls, faults, open, stage,
                 currentQuestion>>

\* persistenceService.saveSession, then return
CsSave(t) ==
    /\ pc[t] = "save"
    /\ store' = PsSaveSession(store, loc[t].sessionId, loc[t].resumeId,
                              generateQuestions(loc[t].questionCount))
    /\ pc' = [pc EXCEPT ![t] = "returned"]
    /\ UNCHANGED <<sessions, resumes, nextId, last, calls, faults, loc, open, stage,
                 currentQuestion>>

NextCreate ==
    \E t \in Threads : CsCall(t) \/ CsFind(t) \/ CsPut(t) \/ CsSave(t)

\* MaxCreators concurrent createSession requests on an empty map and store
SpecCreate == InitReliable /\ [][NextCreate]_vars

\* ------------------------------------- a caller that answers in order
\* createSession on an empty map and store, submitAnswer at indices 0, 1, ...
\* in order, then completeInterview and generateReport; it addresses the one
\* session it created
ScCreate ==
    /\ last.op = "none"
    /\ \E resumeId \in Subjects \cup {NoResume}, questionCount \in 1..(MaxQuestions + 1) :
         \E wf \in SaveFails(resumeId) :
           Serve(Call("createSession", 0, resumeId, "t1", questionCount, 0, NoAnswer,
                      0, FALSE, FALSE, wf))

ScSubmit ==
    /\ last.err = "ok"
    /\ \/ last.op = "createSession"
       \/ last.op = "submitAnswer" /\ last.val.hasNext
    /\ \E answer \in Answers, wf \in WriteFails("submitAnswer", 1) :
         Serve(Call("submitAnswer", 1, NoResume, "t1", 0,
                    IF last.op = "createSession" THEN 0 ELSE last.val.currentIndex,
                    answer, 0, FALSE, FALSE, wf))

ScComplete ==
    /\ last.err = "ok"
    /\ last.op \in {"createSession", "submitAnswer"}
    /\ \E wf \in WriteFails("completeInterview", 1) :
         Serve(Call("completeInterview", 1, NoResume, "t1", 0, 0, NoAnswer,
                    0, FALSE, FALSE, wf))

ScReport ==
    /\ last.op \in {"createSession", "submitAnswer", "completeInterview"}
    /\ \E ef \in BOOLEAN, wf \in WriteFails("generateReport", 1) :
         Serve(Call("generateReport", 1, NoResume, "t1", 0, 0, NoAnswer,
                    0, FALSE, ef, wf))

NextScript == ScCreate \/ ScSubmit \/ ScComplete \/ ScReport

\* the store failing at will in some runs and never in the others
InitScript == Start /\ faults \in BOOLEAN
SpecScript == InitScript /\ [][NextScript]_vars

\* ------------------------------------------ the resume edited in the store
Edited == "t2"                      \* the text of a resume after an edit

\* the subject's resume text is replaced in the store; sessions are not touched
EditResume ==
    /\ store # <<>>
    /\ \E r \in Subjects :
         /\ resumes[r] # Edited
         /\ resumes' = [resumes EXCEPT ![r] = Edited]
    /\ UNCHANGED <<sessions, store, nextId, last, calls, faults, open, pc, loc, stage,
                 currentQuestion>>

NextResume == Next \/ EditResume

\* single-threaded caller, the store never failing, resumes edited at will
SpecResume == InitReliable /\ [][NextResume]_vars

\* -------------- request threads inside submitAnswer, one step at a time
\* The fields of InterviewSession are plain and submitAnswer takes no lock:
\* the threads interleave between the accesses to the session. The reads of
\* one statement are taken together.
SbLocals == [questionIndex |-> 0, answer |-> NoAnswer, response |-> Null]

\* the session createSession has put into the map and, with a resume, into the store
Created(resumeId, questionCount) ==
    createSession(<<>>, <<>>, [r \in Subjects |-> "t1"], 1,
                  [resumeId |-> resumeId, resumeText |-> "t1",
                   questionCount |-> questionCount], 0, FALSE, 0)

InitSubmit ==
    /\ \E resumeId \in Subjects \cup {NoResume}, questionCount \in 1..MaxQuestions :
         /\ sessions = Created(resumeId, questionCount).sessions
         /\ store = Created(resumeId, questionCount).store
    /\ resumes = [r \in Subjects |-> "t1"]
    /\ nextId = 2
    /\ last = [op |-> "createSession", sessionId |-> 0, questionIndex |-> 0,
               answer |-> NoAnswer, err |-> "ok", val |-> toDTO(sessions[1]),
               before |-> [cached |-> FALSE, currentIndex |-> -1, status |-> "none"]]
    /\ calls = 1
    /\ faults = FALSE
    /\ open = [r \in Subjects |-> IF sessions[1].resumeId = r THEN 1 ELSE 0]
    /\ pc = [t \in Threads |-> "idle"]
    /\ loc = [t \in Threads |-> SbLocals]
    /\ stage = "config"
    /\ currentQuestion = -1

\* a request arrives: submitAnswer(1, questionIndex, answer); the session is
\* in the map and the index is valid
SbCall(t) ==
    /\ pc[t] = "idle"
    /\ \E questionIndex \in 0..(Len(sessions[1].questions) - 1), answer \in Answers :
         loc' = [loc EXCEPT ![t] = [questionIndex |-> questionIndex, answer |-> answer,
                                    response |-> Null]]
    /\ pc' = [pc EXCEPT ![t] = "set"]
    /\ UNCHANGED <<sessions, store, resumes, nextId, last, calls, faults, open, stage,
                 currentQuestion>>

\* session.questions.set(index, question.withAnswer(answer))
SbSet(t) ==
    /\ pc[t] = "set"
    /\ sessions' = [sessions EXCEPT ![1].questions[loc[t].questionIndex + 1] =
                                        withAnswer(@, loc[t].answer)]
    /\ pc' = [pc EXCEPT ![t] = "advance"]
    /\ UNCHANGED <<store, resumes, nextId, last, calls, faults, open, loc, stage,
                 currentQuestion>>

\* session.currentIndex = index + 1
SbAdvance(t) ==
    /\ pc[t] = "advance"
    /\ sessions' = [sessions EXCEPT ![1].currentIndex = loc[t].questionIndex + 1]
    /\ pc' = [pc EXCEPT ![t] = "next"]
    /\ UNCHANGED <<store, resumes, nextId, last, calls, faults, open, loc, stage,
                 currentQuestion>>

\* hasNextQuestion and nextQuestion from session.currentIndex as it is now;
\* COMPLETED when there is no next question
SbNext(t) ==
    /\ pc[t] = "next"
    /\ \E session \in {sessions[1]} :
         \E hasNextQuestion \in {session.currentIndex < Len(session.questions)} :
           /\ loc' = [loc EXCEPT ![t].response =
                        [hasNext |-> hasNextQuestion,
                         nextQuestion |-> IF hasNextQuestion
                                          THEN session.questions[session.currentIndex + 1]
                                          ELSE NoQuestion]]
           /\ sessions' = IF hasNextQuestion THEN sessions
                          ELSE [sessions EXCEPT ![1].status = "COMPLETED"]
    /\ pc' = [pc EXCEPT ![t] = "save"]
    /\ UNCHANGED <<store, resumes, nextId, last, calls, faults, open, stage,
                 currentQuestion>>

\* the three store writes, with session.currentIndex and session.status as
\* they are now
SbSave(t) ==
    /\ pc[t] = "save"
    /\ store' = IF sessions[1].resumeId = NoResume THEN store
                ELSE PsUpdateSessionStatus(
                         PsUpdateCurrentQuestionIndex(
                             PsSaveAnswer(store, 1, loc[t].questionIndex, loc[t].answer),
                             1, sessions[1].currentIndex),
                         1, IF sessions[1].status = "COMPLETED" THEN "COMPLETED"
                            ELSE "IN_PROGRESS")
    /\ pc' = [pc EXCEPT ![t] = "return"]
    /\ UNCHANGED <<sessions, resumes, nextId, last, calls, faults, open, loc, stage,
                 currentQuestion>>

\* new SubmitAnswerResponse(hasNextQuestion, nextQuestion,
\* session.currentIndex, session.questions.size())
SbReturn(t) ==
    /\ pc[t] = "return"
    /\ loc' = [loc EXCEPT ![t].response =
                 [hasNext |-> @.hasNext, nextQuestion |-> @.nextQuestion,
                  currentIndex |-> sessions[1].currentIndex,
                  totalQuestions |-> Len(sessions[1].questions)]]
    /\ pc' = [pc EXCEPT ![t] = "returned"]
    /\ UNCHANGED <<sessions, store, resumes, nextId, last, calls, faults, open, stage,
                 currentQuestion>>

NextSubmit ==
    \E t \in Threads :
        SbCall(t) \/ SbSet(t) \/ SbAdvance(t) \/ SbNext(t) \/ SbSave(t) \/ SbReturn(t)

\* MaxCreators concurrent submitAnswer requests on one session of the map
SpecSubmit == InitSubmit /\ [][NextSubmit]_vars

\* ---------------- request threads inside saveAnswer, one step at a time
\* Thread t saves at questionIndex t - 1 on session 1, which the store holds
\* and the map does not. An InterviewSession is an object: obj is the one the
\* thread has rebuilt (if any), ref the thread whose object it works on, held
\* whether its own object is the one the map holds.
SvLocals == [answer |-> NoAnswer, obj |-> Null, ref |-> 0, held |-> FALSE]

\* a session of one question per thread was created with a resume and the
\* process has restarted
InitSave ==
    /\ sessions = <<>>
    /\ store = Created(1, MaxCreators).store
    /\ resumes = [r \in Subjects |-> "t1"]
    /\ nextId = 2
    /\ last = [op |-> "restart", sessionId |-> 0, questionIndex |-> 0, answer |-> NoAnswer,
               err |-> "ok", val |-> Null,
               before |-> [cached |-> FALSE, currentIndex |-> -1, status |-> "none"]]
    /\ calls = 2
    /\ faults = FALSE
    /\ open = [r \in Subjects |-> 0]
    /\ pc = [t \in Threads |-> "idle"]
    /\ loc = [t \in Threads |-> SvLocals]
    /\ stage = "config"
    /\ currentQuestion = -1

\* a request arrives, saveAnswer(1, t - 1, answer), and getOrRestoreSession
\* reads the map: the object found there, or none
SvGet(t) ==
    /\ pc[t] = "idle"
    /\ \E answer \in Answers :
         loc' = [loc EXCEPT ![t].answer = answer,
                            ![t].ref = IF 1 \in DOMAIN sessions
                                       THEN CHOOSE u \in Threads : loc[u].held
                                       ELSE 0]
    /\ pc' = [pc EXCEPT ![t] = IF 1 \in DOMAIN sessions THEN "set" ELSE "restore"]
    /\ UNCHANGED <<sessions, store, resumes, nextId, last, calls, faults, open, stage,
                 currentQuestion>>

\* restoreSessionFromDatabase: a new object from what the store holds now
SvRestore(t) ==
    /\ pc[t] = "restore"
    /\ loc' = [loc EXCEPT ![t].obj = restoreSessionFromDatabase(store, resumes, 1, 0),
                          ![t].ref = t]
    /\ pc' = [pc EXCEPT ![t] = "put"]
    /\ UNCHANGED <<sessions, store, resumes, nextId, last, calls, faults, open, stage,
                 currentQuestion>>

\* sessions.put(sessionId, session): the map holds this thread's object and
\* no other
SvPut(t) ==
    /\ pc[t] = "put"
    /\ sessions' = put(sessions, 1, loc[t].obj.v)
    /\ loc' = [u \in Threads |-> [loc[u] EXCEPT !.held = (u = t)]]
    /\ pc' = [pc EXCEPT ![t] = "set"]
    /\ UNCHANGED <<store, resumes, nextId, last, calls, faults, open, stage,
                 currentQuestion>>

\* questions.set(index, question.withAnswer(answer)) and CREATED becoming
\* IN_PROGRESS, on the object the thread works on
SvSet(t) ==
    /\ pc[t] = "set"
    /\ \E session \in {loc[loc[t].ref].obj.v} :
         \E after \in {[session EXCEPT !.questions[t] = withAnswer(@, loc[t].answer),
                                       !.status = IF @ = "CREATED" THEN "IN_PROGRESS"
                                                  ELSE @]} :
           /\ loc' = [loc EXCEPT ![loc[t].ref].obj = Some(after)]
           /\ sessions' = IF loc[loc[t].ref].held THEN put(sessions, 1, after) ELSE sessions
    /\ pc' = [pc EXCEPT ![t] = "save"]
    /\ UNCHANGED <<store, resumes, nextId, last, calls, faults, open, stage,
                 currentQuestion>>

\* the two store writes, then return
SvSave(t) ==
    /\ pc[t] = "save"
    /\ store' = PsUpdateSessionStatus(PsSaveAnswer(store, 1, t - 1, loc[t].answer),
                                      1, "IN_PROGRESS")
    /\ pc' = [pc EXCEPT ![t] = "returned"]
    /\ UNCHANGED <<sessions, resumes, nextId, last, calls, faults, open, loc, stage,
                 currentQuestion>>

NextSave ==
    \E t \in Threads : SvGet(t) \/ SvRestore(t) \/ SvPut(t) \/ SvSet(t) \/ SvSave(t)

\* MaxCreators concurrent saveAnswer requests on a session not yet in the map
SpecSave == InitSave /\ [][NextSave]_vars

\* ------------------------------------------------------------------
\* The interview page (Interview.tsx) in front of the service. Its buttons
\* are disabled while a handler runs, so one handler runs at a time; the one
\* point where a handler is seen midway is the stage 'loading-report', set
\* before the report is requested.

\* the session the page holds: the one its createSession call returned, the
\* first of the run
session == 1

\* startInterview: a session with progress is restored at its current
\* question (none past the last), a new one starts at its first question
startInterview ==
    /\ stage = "config"
    /\ calls < Budget
    /\ \E resumeId \in Subjects \cup {NoResume}, questionCount \in 1..MaxQuestions,
          gf \in BOOLEAN :
         \E rf \in FindFails(resumeId), wf \in SaveFails(resumeId) :
           Respond(Call("createSession", 0, resumeId, "t1", questionCount, 0, NoAnswer,
                        rf, gf, FALSE, wf))
    /\ IF last'.err = "ok"
       THEN /\ stage' = "interview"
            /\ currentQuestion' =
                 IF \/ last'.val.currentIndex > 0
                    \/ \E i \in DOMAIN last'.val.questions :
                         last'.val.questions[i].userAnswer # NoAnswer
                    \/ last'.val.status = "IN_PROGRESS"
                 THEN IF last'.val.currentIndex < Len(last'.val.questions)
                      THEN last'.val.currentIndex ELSE -1
                 ELSE 0
       ELSE UNCHANGED <<stage, currentQuestion>>

handleSaveAnswer ==
    /\ stage = "interview"
    /\ currentQuestion # -1
    /\ calls < Budget
    /\ \E answer \in Answers :
         \E rf \in ReadFails(session), wf \in WriteFails("saveAnswer", session) :
           Respond(Call("saveAnswer", session, NoResume, "t1", 0, currentQuestion, answer,
                        rf, FALSE, FALSE, wf))
    /\ UNCHANGED <<stage, currentQuestion>>

\* handleSubmitAnswer up to its setStage('loading-report'); the report is
\* requested in UiGenerateReport
handleSubmitAnswer ==
    /\ stage = "interview"
    /\ currentQuestion # -1
    /\ calls < Budget
    /\ \E answer \in Answers :
         \E rf \in ReadFails(session), wf \in WriteFails("submitAnswer", session) :
           Respond(Call("submitAnswer", session, NoResume, "t1", 0, currentQuestion, answer,
                        rf, FALSE, FALSE, wf))
    /\ IF last'.err # "ok"
       THEN UNCHANGED <<stage, currentQuestion>>
       ELSE IF last'.val.hasNext /\ last'.val.nextQuestion # NoQuestion
            THEN /\ currentQuestion' = last'.val.nextQuestion.questionIndex
                 /\ stage' = stage
            ELSE /\ stage' = "loading-report"
                 /\ currentQuestion' = currentQuestion

\* handleCompleteEarly up to its setStage('loading-report'): a refused
\* completeInterview is caught and the report is not requested
handleCompleteEarly ==
    /\ stage = "interview"
    /\ calls < Budget
    /\ \E rf \in ReadFails(session), wf \in WriteFails("completeInterview", session) :
         Respond(Call("completeInterview", session, NoResume, "t1", 0, 0, NoAnswer,
                      rf, FALSE, FALSE, wf))
    /\ stage' = IF last'.err = "ok" THEN "loading-report" ELSE stage
    /\ UNCHANGED currentQuestion

\* generateReport of the page, awaited by handleSubmitAnswer and
\* handleCompleteEarly after setStage('loading-report')
UiGenerateReport ==
    /\ stage = "loading-report"
    /\ calls < Budget
    /\ \E ef \in BOOLEAN :
         \E rf \in ReadFails(session), wf \in WriteFails("generateReport", session) :
           Respond(Call("generateReport", session, NoResume, "t1", 0, 0, NoAnswer,
                        rf, FALSE, ef, wf))
    /\ stage' = IF last'.err = "ok" THEN "report" ELSE "interview"
    /\ UNCHANGED currentQuestion

NextUi ==
    \/ startInterview
    \/ handleSaveAnswer
    \/ handleSubmitAnswer
    \/ handleCompleteEarly
    \/ UiGenerateReport

\* one page in front of a service whose store never fails
SpecUi == InitReliable /\ [][NextUi]_vars

\* ================================================================== claims
Rank(status) ==
    CASE status = "CREATED" -> 0
      [] status = "IN_PROGRESS" -> 1
      [] status = "COMPLETED" -> 2
      [] status = "EVALUATED" -> 3

UnfinishedOf(map, resumeId) ==
    {id \in DOMAIN map : map[id].resumeId = resumeId /\ map[id].status \in Unfinished}

Held == DOMAIN sessions \cap DOMAIN sessions'

\* P of every call the run can make in the current state
EveryCall(P(_)) ==
    calls < Budget =>
    /\ \A resumeId \in Subjects \cup {NoResume}, resumeText \in Texts,
          questionCount \in 1..MaxQuestions, gf \in BOOLEAN :
         \A rf \in FindFails(resumeId), wf \in SaveFails(resumeId) :
           P(Call("createSession", 0, resumeId, resumeText, questionCount, 0, NoAnswer,
                  rf, gf, FALSE, wf))
    /\ \A op \in {"getCurrentQuestion", "completeInterview"}, sessionId \in SessionIds :
         \A rf \in ReadFails(sessionId), wf \in WriteFails(op, sessionId) :
           P(Call(op, sessionId, NoResume, "t1", 0, 0, NoAnswer, rf, FALSE, FALSE, wf))
    /\ \A op \in {"submitAnswer", "saveAnswer"}, sessionId \in SessionIds,
          questionIndex \in Indexes, answer \in Answers :
         \A rf \in ReadFails(sessionId), wf \in WriteFails(op, sessionId) :
           P(Call(op, sessionId, NoResume, "t1", 0, questionIndex, answer,
                  rf, FALSE, FALSE, wf))
    /\ \A sessionId \in SessionIds, ef \in BOOLEAN :
         \A rf \in ReadFails(sessionId), wf \in WriteFails("generateReport", sessionId) :
           P(Call("generateReport", sessionId, NoResume, "t1", 0, 0, NoAnswer,
                  rf, FALSE, ef, wf))

\* C1: once every concurrent createSession of a subject has returned, at most
\* one session of that subject is CREATED or IN_PROGRESS, in the map and in
\* the store.
OneUnfinishedPerSubject ==
    (\A t \in Threads : pc[t] = "returned") =>
        \A r \in Subjects : /\ Cardinality(UnfinishedOf(sessions, r)) <= 1
                            /\ Cardinality(UnfinishedOf(store, r)) <= 1

\* C2: a createSession for a subject whose last createSession returned a
\* session that no call has since brought to COMPLETED or EVALUATED returns
\* that session's identifier, whatever store reads and writes failed.
SameSessionResumed ==
    [][\A r \in Subjects :
         (/\ open[r] # 0
          /\ last'.op = "createSession"
          /\ last'.err = "ok"
          /\ sessions'[last'.val.sessionId].resumeId = r)
         => last'.val.sessionId = open[r]]_vars

\* C3: a session with a resume, rebuilt from the store, has the questions,
\* answers, currentIndex and status that the map holds for it.
RestoreEquivalent ==
    \A id \in DOMAIN sessions :
        sessions[id].resumeId # NoResume =>
            LET rebuilt == restoreSessionFromDatabase(store, resumes, id, 0)
            IN /\ rebuilt.ok
               /\ rebuilt.v.questions = sessions[id].questions
               /\ rebuilt.v.currentIndex = sessions[id].currentIndex
               /\ rebuilt.v.status = sessions[id].status

\* C4: no call moves the status of a session in the map backward in the
\* order CREATED < IN_PROGRESS < COMPLETED < EVALUATED.
StatusNeverBackward ==
    [][\A id \in Held : Rank(sessions'[id].status) >= Rank(sessions[id].status)]_vars

\* C5 as stated: no call lowers the currentIndex of a session in the map.
CurrentIndexNeverDecreases ==
    [][\A id \in Held : sessions'[id].currentIndex >= sessions[id].currentIndex]_vars

\* C5 as amended: a call lowers the currentIndex of a session in the map only
\* if it is a successful submitAnswer on that session with questionIndex + 1
\* below its currentIndex, and it leaves currentIndex = questionIndex + 1.
CurrentIndexLoweredOnlyBySubmit ==
    EveryCall(LAMBDA call :
        \A o \in {Outcome(call)} :
            \A id \in DOMAIN sessions :
                o.sessions[id].currentIndex < sessions[id].currentIndex =>
                    /\ call.op = "submitAnswer"
                    /\ call.sessionId = id
                    /\ o.err = "ok"
                    /\ call.questionIndex + 1 < sessions[id].currentIndex
                    /\ o.sessions[id].currentIndex = call.questionIndex + 1)

\* C5 witness: a submitAnswer has lowered the currentIndex of its session.
SubmitLoweredCurrentIndex ==
    /\ last.op = "submitAnswer"
    /\ last.err = "ok"
    /\ last.before.cached
    /\ last.val.currentIndex < last.before.currentIndex

\* C6: no call changes a question (its userAnswer) of a session whose status
\* in the map is COMPLETED or EVALUATED.
AnswersFrozenOnceCompleted ==
    [][\A id \in Held :
         sessions[id].status \in Finished =>
             sessions'[id].questions = sessions[id].questions]_vars

\* C7: a session whose status is CREATED has currentIndex 0 and no question
\* with a userAnswer.
CreatedMeansUntouched ==
    \A id \in DOMAIN sessions :
        sessions[id].status = "CREATED" =>
            /\ sessions[id].currentIndex = 0
            /\ \A i \in 1..Len(sessions[id].questions) :
                   sessions[id].questions[i].userAnswer = NoAnswer

\* C8: for every call, the result, the error and the map after the call are
\* the same whichever of its store writes throws, and the same as when none
\* does.
StoreWriteOutcomeIrrelevant ==
    EveryCall(LAMBDA call :
        call.wf = 0 =>
            \A none \in {Outcome(call)} :
                \A wf \in 0..Writes(call.op) :
                    \A some \in {Outcome([call EXCEPT !.wf = wf])} :
                        /\ some.err = none.err
                        /\ some.val = none.val
                        /\ some.sessions = none.sessions
                        /\ some.nextId = none.nextId)

\* C8 witness: a call on a stored session succeeded in memory while its store
\* write was lost (the map is ahead of the store).
StoreWriteWasLost ==
    /\ last.op = "completeInterview"
    /\ last.err = "ok"
    /\ last.sessionId \in DOMAIN store
    /\ sessions[last.sessionId].status = "COMPLETED"
    /\ store[last.sessionId].status # "COMPLETED"

\* C9: a call fails with INTERVIEW_SESSION_NOT_FOUND only if neither the map
\* nor the store holds the session.
NotFoundOnlyIfAbsent ==
    last.err = "INTERVIEW_SESSION_NOT_FOUND" =>
        /\ last.sessionId \notin DOMAIN sessions
        /\ last.sessionId \notin DOMAIN store

\* C10: a session that createSession returns is CREATED or IN_PROGRESS, and a
\* freshly created one is CREATED with currentIndex 0.
CreateReturnsUnfinished ==
    [][(last'.op = "createSession" /\ last'.err = "ok") =>
         /\ last'.val.status \in Unfinished
         /\ nextId' # nextId =>
                (last'.val.status = "CREATED" /\ last'.val.currentIndex = 0)]_vars

\* the session a call addressed, as the call resolved it: the map's, or the
\* one rebuilt from the store
Pre(sessionId) == getOrRestoreSession(sessions, store, resumes, sessionId, 0).session

\* the last call was addressed to a session and found it
Resolved(l) ==
    /\ l.op \in {"getCurrentQuestion", "submitAnswer", "saveAnswer",
                 "completeInterview", "generateReport"}
    /\ l.err # "INTERVIEW_SESSION_NOT_FOUND"

\* C11: every session in the map, created or rebuilt from the store, has
\* 0 <= currentIndex <= the number of its questions.
CurrentIndexInRange ==
    \A id \in DOMAIN sessions :
        /\ 0 <= sessions[id].currentIndex
        /\ sessions[id].currentIndex <= Len(sessions[id].questions)

\* C11 witness: a call has rebuilt a session from the store into the map.
SessionRebuiltIntoMap ==
    /\ Resolved(last)
    /\ ~last.before.cached
    /\ last.sessionId \in DOMAIN sessions

\* C12: a call changes a question of a session in the map only if it is a
\* successful submitAnswer or saveAnswer on that session at that question's
\* index, and then the question differs from before only in holding the
\* call's answer; after such a call the question at its index holds the answer.
AnswersChangeOnlyWhereRecorded ==
    [][/\ \A id \in Held : \A i \in 1..Len(sessions[id].questions) :
             sessions'[id].questions[i] # sessions[id].questions[i] =>
                 /\ last'.op \in {"submitAnswer", "saveAnswer"}
                 /\ last'.err = "ok"
                 /\ last'.sessionId = id
                 /\ last'.questionIndex = i - 1
                 /\ sessions'[id].questions[i] =
                        withAnswer(sessions[id].questions[i], last'.answer)
       /\ (last'.op \in {"submitAnswer", "saveAnswer"} /\ last'.err = "ok") =>
             sessions'[last'.sessionId].questions[last'.questionIndex + 1].userAnswer
                 = last'.answer]_vars

\* C12 witness: an answer recorded at one index is still there after a
\* saveAnswer with another text at another index.
AnswerKeptBesideAnother ==
    /\ last.op = "saveAnswer"
    /\ last.err = "ok"
    /\ last.answer = "b"
    /\ \E i \in 1..Len(sessions[last.sessionId].questions) :
           /\ i - 1 # last.questionIndex
           /\ sessions[last.sessionId].questions[i].userAnswer = "a"

\* C13: in a run that creates a session and submits at indices 0, 1, ... in
\* order, every submitAnswer succeeds; the one at the last index leaves the
\* status COMPLETED and answers hasNext = FALSE, every earlier one answers
\* hasNext = TRUE.
SubmitAllCompletes ==
    last.op = "submitAnswer" =>
        /\ last.err = "ok"
        /\ IF last.questionIndex = Len(sessions[1].questions) - 1
           THEN sessions[1].status = "COMPLETED" /\ ~last.val.hasNext
           ELSE last.val.hasNext

\* C13 witness: the last of three in-order submits has been served.
ThreeSubmittedInOrder ==
    /\ last.op = "submitAnswer"
    /\ last.questionIndex = 2
    /\ Len(sessions[1].questions) = 3

\* C14: with three questions, after createSession and submitAnswer at 0 and
\* then 1 the session has currentIndex 2 and status IN_PROGRESS and the
\* response has hasNext with nextQuestion 2; completeInterview then succeeds
\* and leaves COMPLETED; generateReport then succeeds, question 2 unanswered.
ThreeQuestionScenario ==
    (1 \in DOMAIN sessions /\ Len(sessions[1].questions) = 3) =>
        /\ (last.op = "submitAnswer" /\ last.questionIndex = 1) =>
              /\ last.err = "ok"
              /\ sessions[1].currentIndex = 2
              /\ sessions[1].status = "IN_PROGRESS"
              /\ last.val.hasNext
              /\ last.val.nextQuestion.questionIndex = 2
        /\ (last.op = "completeInterview" /\ last.before.currentIndex = 2) =>
              /\ last.err = "ok"
              /\ sessions[1].status = "COMPLETED"
        /\ (/\ last.op = "generateReport"
            /\ last.before.status = "COMPLETED"
            /\ last.before.currentIndex = 2
            /\ last.err # "EVALUATION_FAILED") =>
              /\ last.err = "ok"
              /\ last.val.questions[3].userAnswer = NoAnswer

\* C15: generateReport on a session that is CREATED or IN_PROGRESS fails with
\* INTERVIEW_NOT_COMPLETED whether the evaluator would succeed or fail (it is
\* not called) and leaves the session and the store as they were; on a
\* session that is COMPLETED or EVALUATED, the evaluator succeeding, it
\* returns the report and leaves the status EVALUATED.
ReportOnlyWhenCompleted ==
    /\ [][(last'.op = "generateReport" /\ Resolved(last')) =>
         \A s \in {Pre(last'.sessionId)} :
            IF s.status \in Unfinished
            THEN /\ last'.err = "INTERVIEW_NOT_COMPLETED"
                 /\ sessions'[s.sessionId] = s
                 /\ store' = store
                 /\ \A ef \in BOOLEAN :
                        generateReport(sessions, store, resumes, nextId, s.sessionId,
                                       0, ef, 0).err = "INTERVIEW_NOT_COMPLETED"
            ELSE last'.err # "EVALUATION_FAILED" =>
                 /\ last'.err = "ok"
                 /\ last'.val.questions = s.questions
                 /\ sessions'[s.sessionId] = [s EXCEPT !.status = "EVALUATED"]]_vars
    /\ [][(/\ last'.op = "generateReport"
            /\ last'.sessionId = last.sessionId
            /\ last.err = "ok"
            /\ \/ last.op = "completeInterview"
               \/ last.op = "submitAnswer" /\ ~last.val.hasNext
            /\ last'.err # "EVALUATION_FAILED") =>
             /\ last'.err = "ok"
             /\ sessions'[last'.sessionId].status = "EVALUATED"]_vars

\* C15 witness: generateReport has succeeded on a COMPLETED session.
ReportFromCompleted ==
    /\ last.op = "generateReport"
    /\ last.err = "ok"
    /\ last.before.status = "COMPLETED"
    /\ sessions[last.sessionId].status = "EVALUATED"

\* C16: a saveAnswer that found its session leaves the currentIndex as it
\* was and the status as it was, but for CREATED becoming IN_PROGRESS when
\* it succeeds; after a successful one the question at its index holds its
\* answer, whatever was saved there before.
SaveAnswerKeepsProgress ==
    [][(last'.op = "saveAnswer" /\ Resolved(last')) =>
         \A s \in {Pre(last'.sessionId)} :
            /\ sessions'[s.sessionId].currentIndex = s.currentIndex
            /\ sessions'[s.sessionId].status =
                   IF last'.err = "ok" /\ s.status = "CREATED" THEN "IN_PROGRESS"
                   ELSE s.status
            /\ Len(sessions'[s.sessionId].questions) = Len(s.questions)
            /\ last'.err = "ok" =>
                   sessions'[s.sessionId].questions[last'.questionIndex + 1]
                       = withAnswer(s.questions[last'.questionIndex + 1], last'.answer)]_vars

\* C16 witness: a second saveAnswer at index 0 has replaced the text the
\* store still holds from the first.
SavedTwiceAtSameIndex ==
    /\ last.op = "saveAnswer"
    /\ last.err = "ok"
    /\ last.questionIndex = 0
    /\ last.answer = "b"
    /\ last.before.currentIndex = 0
    /\ sessions[last.sessionId].questions[1].userAnswer = "b"
    /\ sessions[last.sessionId].currentIndex = 0
    /\ last.sessionId \in DOMAIN store
    /\ 0 \in DOMAIN store[last.sessionId].answers
    /\ store[last.sessionId].answers[0] = "a"

\* C17: a getCurrentQuestion served right after a successful submitAnswer at
\* questionIndex on the same session (in particular one with questionIndex =
\* currentIndex) returns the question at questionIndex + 1, or none when
\* questionIndex + 1 is the number of questions.
NextQuestionAfterSubmit ==
    [][(/\ last.op = "submitAnswer"
        /\ last.err = "ok"
        /\ last'.op = "getCurrentQuestion"
        /\ last'.sessionId = last.sessionId) =>
         /\ last'.err = "ok"
         /\ last'.val =
               IF last.questionIndex + 1 = Len(sessions[last.sessionId].questions)
               THEN NoQuestion
               ELSE sessions[last.sessionId].questions[last.questionIndex + 2]]_vars

\* C17 witness: the third call of a run, getCurrentQuestion, has answered
\* with question 1 after createSession and a submitAnswer at questionIndex =
\* currentIndex = 0.
AskedAfterSubmit ==
    /\ last.op = "getCurrentQuestion"
    /\ last.err = "ok"
    /\ calls = 3
    /\ last.before.status = "CREATED"
    /\ last.before.currentIndex = 1
    /\ last.val.questionIndex = 1
    /\ sessions[last.sessionId].questions[1].userAnswer # NoAnswer

\* C18: a submitAnswer or saveAnswer that found its session fails with
\* INTERVIEW_QUESTION_NOT_FOUND exactly when questionIndex < 0 or
\* questionIndex >= the number of questions, and then leaves every session
\* and the store as they were.
InvalidIndexRejected ==
    [][(last'.op \in {"submitAnswer", "saveAnswer"} /\ Resolved(last')) =>
         \A s \in {Pre(last'.sessionId)} :
            /\ (last'.questionIndex < 0 \/ last'.questionIndex >= Len(s.questions))
                   <=> last'.err = "INTERVIEW_QUESTION_NOT_FOUND"
            /\ last'.err = "INTERVIEW_QUESTION_NOT_FOUND" =>
                   /\ sessions'[s.sessionId] = s
                   /\ \A id \in Held : sessions'[id] = sessions[id]
                   /\ store' = store]_vars

\* C18 witness: a call at questionIndex = the number of questions was
\* rejected on a session that holds an answer.
IndexPastEndRejected ==
    /\ last.op \in {"submitAnswer", "saveAnswer"}
    /\ last.err = "INTERVIEW_QUESTION_NOT_FOUND"
    /\ last.questionIndex = Len(sessions[last.sessionId].questions)
    /\ sessions[last.sessionId].questions[1].userAnswer # NoAnswer

\* C19: a completeInterview that found its session fails with
\* INTERVIEW_ALREADY_COMPLETED on COMPLETED or EVALUATED, leaving the
\* session and the store as they were; otherwise it succeeds and changes
\* only the status, to COMPLETED, whatever the currentIndex.
CompleteEarlyOnlyOnce ==
    [][(last'.op = "completeInterview" /\ Resolved(last')) =>
         \A s \in {Pre(last'.sessionId)} :
            IF s.status \in Finished
            THEN /\ last'.err = "INTERVIEW_ALREADY_COMPLETED"
                 /\ sessions'[s.sessionId] = s
                 /\ store' = store
            ELSE /\ last'.err = "ok"
                 /\ sessions'[s.sessionId] = [s EXCEPT !.status = "COMPLETED"]]_vars

\* C19 witness: completeInterview has succeeded on a session with one of its
\* two questions submitted.
CompletedEarlyMidway ==
    /\ last.op = "completeInterview"
    /\ last.err = "ok"
    /\ sessions[last.sessionId].status = "COMPLETED"
    /\ sessions[last.sessionId].currentIndex = 1
    /\ Len(sessions[last.sessionId].questions) = 2

\* C20: the store never failing, after createSession with a resume and N
\* submitAnswer calls at 0 .. N-1 in order, the session rebuilt from the
\* store has currentIndex N and at every index below N the text submitted
\* there.
SubmittedProgressRestored ==
    (/\ ~faults
     /\ last.op \in {"createSession", "submitAnswer"}
     /\ sessions[1].resumeId # NoResume) =>
        \A r \in {restoreSessionFromDatabase(store, resumes, 1, 0)} :
            LET N == IF last.op = "createSession" THEN 0 ELSE last.questionIndex + 1
            IN /\ r.ok
               /\ r.v.currentIndex = N
               /\ \A i \in 1..N :
                      /\ r.v.questions[i].userAnswer \in Answers
                      /\ r.v.questions[i].userAnswer = sessions[1].questions[i].userAnswer
               /\ N > 0 => r.v.questions[N].userAnswer = last.answer

\* C20 witness: two answers were submitted in order to a stored session of
\* three questions, the store never failing.
TwoSubmittedAndStored ==
    /\ ~faults
    /\ last.op = "submitAnswer"
    /\ last.questionIndex = 1
    /\ sessions[1].resumeId # NoResume
    /\ Len(sessions[1].questions) = 3
    /\ store[1].currentQuestionIndex = 2

\* C21: a generateReport that finds its session EVALUATED succeeds, the
\* evaluator not failing, and leaves the session (status, currentIndex and
\* every question) as it was; a second successful generateReport right after
\* a first leaves the session as the first left it.
ReportAgainChangesNothing ==
    /\ [][(last'.op = "generateReport" /\ Resolved(last')) =>
            \A s \in {Pre(last'.sessionId)} :
                (s.status = "EVALUATED" /\ last'.err # "EVALUATION_FAILED") =>
                    /\ last'.err = "ok"
                    /\ last'.val.questions = s.questions
                    /\ sessions'[s.sessionId] = s]_vars
    /\ [][(/\ last.op = "generateReport"
           /\ last.err = "ok"
           /\ last'.op = "generateReport"
           /\ last'.sessionId = last.sessionId
           /\ last'.err # "EVALUATION_FAILED") =>
            /\ last'.err = "ok"
            /\ sessions'[last'.sessionId] = sessions[last.sessionId]]_vars

\* C21 witness: generateReport has succeeded on a session that was EVALUATED.
ReportedTwice ==
    /\ last.op = "generateReport"
    /\ last.err = "ok"
    /\ last.before.status = "EVALUATED"
    /\ sessions[last.sessionId].status = "EVALUATED"

\* C22: a call that changes the status of a session in the map from
\* IN_PROGRESS leaves it COMPLETED, and one that changes it from COMPLETED
\* leaves it EVALUATED.
OnlyForwardEdges ==
    [][\A id \in Held :
         sessions'[id].status # sessions[id].status =>
             /\ sessions[id].status = "IN_PROGRESS" => sessions'[id].status = "COMPLETED"
             /\ sessions[id].status = "COMPLETED" => sessions'[id].status = "EVALUATED"]_vars

\* C22 witness: a submitAnswer at the last index has taken a session from
\* IN_PROGRESS to COMPLETED.
InProgressCompletedBySubmit ==
    /\ last.op = "submitAnswer"
    /\ last.err = "ok"
    /\ last.before.status = "IN_PROGRESS"
    /\ sessions[last.sessionId].status = "COMPLETED"

\* an answer row at any index, inside the questions or outside, added to the
\* rows the store holds for a session
WithRow(st, id, index) == [st EXCEPT ![id].answers = put(@, index, "a")]

\* C23: the number of questions of a session is the questionCount it was
\* created with (the length of the stored questions column): no call changes
\* it in the map, and the session rebuilt from the store has it whatever
\* answer rows the store holds, rows at indices outside the questions included.
QuestionCountFixed ==
    /\ [][\A id \in Held :
            Len(sessions'[id].questions) = Len(sessions[id].questions)]_vars
    /\ [](\A id \in DOMAIN store :
            /\ id \in DOMAIN sessions =>
                   Len(sessions[id].questions) = Len(store[id].questionsJson)
            /\ \A index \in -1..(MaxQuestions + 1) :
                   \A r \in {restoreSessionFromDatabase(WithRow(store, id, index),
                                                        resumes, id, 0)} :
                       /\ r.ok
                       /\ Len(r.v.questions) = Len(store[id].questionsJson)
                       /\ \A i \in 1..Len(r.v.questions) :
                              r.v.questions[i].questionIndex = i - 1)

\* C23 witness: a session of two questions was rebuilt from a store that
\* held an answer row for it.
RebuiltWithAnswerRow ==
    /\ Resolved(last)
    /\ ~last.before.cached
    /\ last.sessionId \in DOMAIN sessions
    /\ Len(sessions[last.sessionId].questions) = 2
    /\ sessions[last.sessionId].questions[2].userAnswer # NoAnswer
    /\ 1 \in DOMAIN store[last.sessionId].answers

\* C24: a successful submitAnswer at questionIndex i leaves currentIndex =
\* i + 1 whatever it was, and answers with currentIndex = i + 1,
\* totalQuestions = the number of questions, hasNext = (i + 1 < that number)
\* and, when hasNext, nextQuestion = the question at i + 1.
SubmitAnswerResponse ==
    [][(last'.op = "submitAnswer" /\ last'.err = "ok") =>
         \A s \in {sessions'[last'.sessionId]}, i \in {last'.questionIndex} :
            /\ s.currentIndex = i + 1
            /\ last'.val.currentIndex = i + 1
            /\ last'.val.totalQuestions = Len(s.questions)
            /\ last'.val.totalQuestions = Len(Pre(last'.sessionId).questions)
            /\ last'.val.hasNext <=> (i + 1 < Len(s.questions))
            /\ IF last'.val.hasNext
               THEN /\ last'.val.nextQuestion = s.questions[i + 2]
                    /\ last'.val.nextQuestion = Pre(last'.sessionId).questions[i + 2]
                    /\ last'.val.nextQuestion.questionIndex = i + 1
               ELSE last'.val.nextQuestion = NoQuestion]_vars

\* C24 witness: a submitAnswer at questionIndex 1 has succeeded on a session
\* whose currentIndex was 0.
SubmittedAheadOfCurrentIndex ==
    /\ last.op = "submitAnswer"
    /\ last.err = "ok"
    /\ last.questionIndex = 1
    /\ last.before.currentIndex = 0
    /\ last.val.currentIndex = 2
    /\ ~last.val.hasNext

\* C25: a getCurrentQuestion that finds its session answers with no question
\* exactly when currentIndex >= the number of questions, and then leaves the
\* session and the store as they were; otherwise it answers with the
\* question at currentIndex and changes nothing of the session but the
\* status, from CREATED to IN_PROGRESS, whatever the status was.
CurrentQuestionServed ==
    [][(last'.op = "getCurrentQuestion" /\ Resolved(last')) =>
         \A s \in {Pre(last'.sessionId)} :
            /\ last'.err = "ok"
            /\ last'.val = NoQuestion <=> s.currentIndex >= Len(s.questions)
            /\ IF s.currentIndex >= Len(s.questions)
               THEN /\ sessions'[s.sessionId] = s
                    /\ store' = store
               ELSE /\ last'.val = s.questions[s.currentIndex + 1]
                    /\ sessions'[s.sessionId] =
                          [s EXCEPT !.status = IF @ = "CREATED" THEN "IN_PROGRESS" ELSE @]
            /\ \A id \in Held \ {s.sessionId} : sessions'[id] = sessions[id]]_vars

\* C25 witness: getCurrentQuestion has answered with no question on a
\* session whose questions were all submitted.
NoQuestionLeft ==
    /\ last.op = "getCurrentQuestion"
    /\ last.err = "ok"
    /\ last.val = NoQuestion
    /\ last.before.currentIndex = Len(sessions[last.sessionId].questions)
    /\ sessions[last.sessionId].status = "COMPLETED"

\* C26: a generateReport whose evaluator fails returns the failure, was on a
\* session that is COMPLETED or EVALUATED and leaves it as it was, writes no
\* report (nothing) to the store, and leaves every other session as it was.
EvaluatorFailureChangesNothing ==
    [][(last'.op = "generateReport" /\ Resolved(last')) =>
         \A s \in {Pre(last'.sessionId)} :
            /\ \A o \in {generateReport(sessions, store, resumes, nextId, s.sessionId, 0, TRUE, 0)} :
                  s.status \in Finished =>
                      /\ o.err = "EVALUATION_FAILED"
                      /\ o.val = Null
            /\ last'.err = "EVALUATION_FAILED" =>
                  /\ s.status \in Finished
                  /\ last'.val = Null
                  /\ sessions'[s.sessionId] = s
                  /\ store' = store
                  /\ \A id \in Held : sessions'[id] = sessions[id]
                  /\ DOMAIN sessions' = DOMAIN sessions \cup {s.sessionId}]_vars

\* C26 witness: the evaluator has failed on a COMPLETED session while the
\* map held another session.
EvaluatorFailedBesideAnother ==
    /\ last.op = "generateReport"
    /\ last.err = "EVALUATION_FAILED"
    /\ last.before.status = "COMPLETED"
    /\ sessions[last.sessionId].status = "COMPLETED"
    /\ \E id \in DOMAIN sessions : id # last.sessionId

\* C27: a createSession whose question generator fails returns the failure
\* unless it resumed an unfinished session without generating, and then
\* leaves the map and the store as they were.
GeneratorFailureCreatesNothing ==
    [][(last'.op = "createSession") =>
         /\ last'.err \in {"ok", "GENERATION_FAILED"}
         /\ last'.err = "GENERATION_FAILED" =>
               /\ last'.val = Null
               /\ sessions' = sessions
               /\ store' = store
         /\ \A resumeId \in Subjects \cup {NoResume}, rf \in 0..2, wf \in 0..1 :
               \A o \in {createSession(sessions, store, resumes, nextId,
                                       [resumeId |-> resumeId, resumeText |-> "t1",
                                        questionCount |-> 1], rf, TRUE, wf)} :
                  \/ o.err = "GENERATION_FAILED" /\ o.sessions = sessions /\ o.store = store
                  \/ /\ o.err = "ok"
                     /\ o.nextId = nextId
                     /\ o.val.sessionId \in DOMAIN store
                     /\ o.store = store]_vars

\* C27 witness: the question generator has failed in a createSession while
\* the map and the store held a session.
GeneratorFailedBesideSession ==
    /\ last.op = "createSession"
    /\ last.err = "GENERATION_FAILED"
    /\ DOMAIN store # {}
    /\ DOMAIN sessions # {}

\* a store that holds, for the session, a record unlike any the calls wrote:
\* one question, answered, currentQuestionIndex 1, the given status
Diverged(id, status) ==
    put(store, id,
        [sessionId |-> id, resumeId |-> 1,
         questionsJson |-> writeValue(generateQuestions(1)), currentQuestionIndex |-> 1,
         status |-> status, answers |-> (0 :> "b"), hasReport |-> TRUE, seq |-> 1])

\* the calls addressed to a session the map holds
CallsOn(id) ==
    {Call(op, id, NoResume, "t1", 0, 0, NoAnswer, 0, FALSE, ef, 0) :
        op \in {"getCurrentQuestion", "completeInterview", "generateReport"}, ef \in BOOLEAN}
    \cup {Call(op, id, NoResume, "t1", 0, questionIndex, answer, 0, FALSE, FALSE, 0) :
            op \in {"submitAnswer", "saveAnswer"}, questionIndex \in Indexes,
            answer \in Answers}

\* C28: for every submitAnswer, saveAnswer, getCurrentQuestion,
\* completeInterview and generateReport addressed to a session the map
\* holds, the result, the error and the map after the call are the same
\* whatever the store holds (the store as it is, an empty store, a store
\* with another record for the session) and whether its reads throw or not.
CacheHitIgnoresStore ==
    calls < Budget =>
        \A id \in DOMAIN sessions : \A call \in CallsOn(id) :
            \A o \in {Outcome(call)} :
                \A st \in {<<>>, Diverged(id, "EVALUATED")}, rf \in 0..1 :
                    \A alt \in {Apply([call EXCEPT !.rf = rf], sessions, st, resumes, nextId)} :
                        /\ alt.err = o.err
                        /\ alt.val = o.val
                        /\ alt.sessions = o.sessions

\* C28 witness: completeInterview was refused on a session the map held as
\* COMPLETED while the store held it as IN_PROGRESS.
RefusedAgainstTheStore ==
    /\ last.op = "completeInterview"
    /\ last.err = "INTERVIEW_ALREADY_COMPLETED"
    /\ last.before.cached
    /\ last.sessionId \in DOMAIN store
    /\ store[last.sessionId].status = "IN_PROGRESS"

\* C29: the resumeText of every session in the map, created or rebuilt from
\* the store, is a text given to createSession, also after the subject's
\* resume was edited in the store.
ResumeTextKept ==
    \A id \in DOMAIN sessions : sessions[id].resumeText \in Texts

\* C30: a call on a session of the map that has no resumeId leaves the store
\* as it is, whichever write would throw, even a store that holds a record
\* under the session's identifier; a createSession without resumeId, the
\* generator not failing, gives the same result whatever the store holds and
\* whether its reads throw, creates a session under a fresh identifier with
\* currentIndex 0 and status CREATED, and leaves the store as it is.
NoResumeNoStore ==
    /\ \A id \in DOMAIN sessions :
          sessions[id].resumeId = NoResume =>
              \A call \in CallsOn(id), st \in {store, Diverged(id, "CREATED")} :
                  \A wf \in 0..Writes(call.op) :
                      Apply([call EXCEPT !.wf = wf], sessions, st, resumes, nextId).store = st
    /\ \A questionCount \in 1..MaxQuestions :
          \A req \in {[resumeId |-> NoResume, resumeText |-> "t1",
                       questionCount |-> questionCount]} :
              \A st \in {store, <<>>, Diverged(nextId, "CREATED"), Diverged(1, "IN_PROGRESS")},
                 rf \in 0..2, wf \in 0..1 :
                  \A o \in {createSession(sessions, st, resumes, nextId, req, rf, FALSE, wf)} :
                      /\ o.err = "ok"
                      /\ o.store = st
                      /\ nextId \notin DOMAIN sessions
                      /\ o.sessions = put(sessions, nextId, o.sessions[nextId])
                      /\ o.val = toDTO(o.sessions[nextId])
                      /\ o.sessions[nextId].resumeId = NoResume
                      /\ o.val.currentIndex = 0
                      /\ o.val.status = "CREATED"
                      /\ o.val.questions = generateQuestions(questionCount)

\* C30 witness: a session created without resumeId has taken a submitAnswer
\* and the store holds nothing.
SubmittedWithoutResume ==
    /\ last.op = "submitAnswer"
    /\ last.err = "ok"
    /\ sessions[1].resumeId = NoResume
    /\ sessions[1].currentIndex = 1
    /\ store = <<>>

\* C33: no call moves the status the store records for a session backward
\* in the order CREATED < IN_PROGRESS < COMPLETED < EVALUATED, whichever
\* store writes throw.
StoredStatusNeverBackward ==
    [][\A id \in DOMAIN store \cap DOMAIN store' :
         Rank(store'[id].status) >= Rank(store[id].status)]_vars

\* C34: a session whose stored currentQuestionIndex is k > 0 has a stored
\* answer row at index k - 1, whichever store writes throw.
StoredIndexBehindAnswers ==
    \A id \in DOMAIN store :
        store[id].currentQuestionIndex > 0 =>
            (store[id].currentQuestionIndex - 1) \in DOMAIN store[id].answers

\* C34 witness: a submitAnswer has stored its answer row and the
\* currentIndex, and its write of the status was lost.
IndexStoredStatusLost ==
    /\ last.op = "submitAnswer"
    /\ last.err = "ok"
    /\ last.sessionId \in DOMAIN store
    /\ store[last.sessionId].currentQuestionIndex = last.questionIndex + 1
    /\ store[last.sessionId].status = "CREATED"

\* the sessions held as COMPLETED or EVALUATED, by the map or by the store
Over(map, st) ==
    {id \in DOMAIN map : map[id].status \in Finished}
        \cup {id \in DOMAIN st : st[id].status \in Finished}

\* the sessions held as EVALUATED, by the map or by the store
Evaluated(map, st) ==
    {id \in DOMAIN map : map[id].status = "EVALUATED"}
        \cup {id \in DOMAIN st : st[id].status = "EVALUATED"}

\* C35: a session comes to be held as COMPLETED or EVALUATED, by the map or
\* by the store, only by a call that leaves it COMPLETED in the map; it
\* comes to be held as EVALUATED, and the evaluator is called for it, only
\* when it was already held as COMPLETED or EVALUATED. So every EVALUATED
\* session, and every call of the evaluator, follows a state in which the
\* map held the session as COMPLETED.
EvaluatedOnlyAfterCompleted ==
    [][/\ \A id \in Over(sessions', store') \ Over(sessions, store) :
             /\ id \in DOMAIN sessions'
             /\ sessions'[id].status = "COMPLETED"
       /\ Evaluated(sessions', store') \ Evaluated(sessions, store)
             \subseteq Over(sessions, store)
       /\ (last'.op = "generateReport" /\ last'.err \in {"ok", "EVALUATION_FAILED"}) =>
             last'.sessionId \in Over(sessions, store)]_vars

\* C35 witness: a session the store held as COMPLETED was rebuilt and
\* evaluated, and the map and the store hold it as EVALUATED.
RebuiltAndEvaluated ==
    /\ last.op = "generateReport"
    /\ last.err = "ok"
    /\ ~last.before.cached
    /\ sessions[last.sessionId].status = "EVALUATED"
    /\ store[last.sessionId].status = "EVALUATED"

\* the orders in which the threads' calls can be served one after another
Orders == {order \in [1..MaxCreators -> Threads] : \A i, j \in 1..MaxCreators :
                                                        order[i] = order[j] => i = j}

\* the threads' submitAnswer calls served one after another in the given
\* order, from the map and the store given: the map after them and each
\* thread's response
RECURSIVE InOrder(_, _, _, _, _)
InOrder(order, k, map, st, responses) ==
    IF k > Len(order) THEN [sessions |-> map, responses |-> responses]
    ELSE LET t == order[k]
             o == submitAnswer(map, st, resumes, nextId,
                               [sessionId |-> 1, questionIndex |-> loc[t].questionIndex,
                                answer |-> loc[t].answer], 0, 0)
         IN InOrder(order, k + 1, o.sessions, o.store, (t :> o.val) @@ responses)

\* C31: once every concurrent submitAnswer on the session has returned, the
\* session in the map and every response are those of the same calls served
\* one after another in some order, and every response has currentIndex =
\* its questionIndex + 1.
SubmitsAsIfInSomeOrder ==
    (\A t \in Threads : pc[t] = "returned") =>
        /\ \E order \in Orders :
              \A r \in {InOrder(order, 1,
                                Created(sessions[1].resumeId, Len(sessions[1].questions)).sessions,
                                Created(sessions[1].resumeId, Len(sessions[1].questions)).store,
                                <<>>)} :
                  /\ r.sessions = sessions
                  /\ \A t \in Threads : r.responses[t] = loc[t].response
        /\ \A t \in Threads : loc[t].response.currentIndex = loc[t].questionIndex + 1

\* C32: once every concurrent saveAnswer on a session that the store held
\* and the map did not has returned, all threads have worked on the object
\* the map holds, and the session in the map holds the answer of every call.
SavesOnOneSession ==
    (\A t \in Threads : pc[t] = "returned") =>
        /\ 1 \in DOMAIN sessions
        /\ \A t \in Threads : loc[loc[t].ref].held
        /\ \A t \in Threads : sessions[1].questions[t].userAnswer = loc[t].answer

\* C36: in the interview page, a step that leaves the stage 'loading-report'
\* is the report request and ends in 'report' when the request succeeded and
\* in 'interview' when it failed; and when the session was completed early
\* and its report request has just failed, activating complete-early again
\* requests the report again, that is, it takes the page to 'loading-report'.
ReportRequestedAgainAfterFailure ==
    /\ [][stage = "loading-report" =>
              /\ last'.op = "generateReport"
              /\ stage' = IF last'.err = "ok" THEN "report" ELSE "interview"]_vars
    /\ [][(/\ stage = "interview"
           /\ last.op = "generateReport"
           /\ last.err = "EVALUATION_FAILED"
           /\ sessions[session].currentIndex < Len(sessions[session].questions)
           /\ last'.op = "completeInterview") => stage' = "loading-report"]_vars

====
